---- MODULE Spec2Model ----
(***************************************************************************)
(* The task interchange (CSV) engine of the node web interface:            *)
(* parseCSVLine, parseCSV and its helpers, escapeCSVValue and generateCSV. *)
(*                                                                         *)
(* A text is a sequence of one-character strings.  Array positions are     *)
(* 1-based here; a position 0 stands for the -1 that findIndex returns.    *)
(***************************************************************************)
EXTENDS Integers, Sequences, FiniteSets, TLC

VARIABLES csvText, pc, lineNo, rows, outcome, thrown, exported,
          values, escaped, joined, tokens, exportHeaders, exportRows,
          scanLine, scanIndex, scanCurrent, scanInQuotes, scanValues,
          calls, heap,
          isOpen, selectedFile, parsedTasks, isParsing, parsing, importing,
          sent, invalidations, toast,
          localStorage, pendingLogins, location, lastHandler

parseVars == <<csvText, pc, lineNo, rows, outcome, thrown, exported>>
codecVars == <<values, escaped, joined, tokens, exportHeaders, exportRows>>
scanVars == <<scanLine, scanIndex, scanCurrent, scanInQuotes, scanValues>>
callVars == <<calls, heap>>
\* The variables outside the machines of the engine run one call at a time.
dialogVars == <<isOpen, selectedFile, parsedTasks, isParsing, parsing, importing,
               sent, invalidations, toast>>
authVars == <<localStorage, pendingLogins, location, lastHandler>>
outsideVars == <<callVars, dialogVars, authVars>>
vars == <<parseVars, codecVars, scanVars, outsideVars>>

(***************************************************************************)
(* Strings: String.prototype.trim, toLowerCase, toUpperCase, split, join.  *)
(***************************************************************************)
WhiteSpace == {" ", "\t", "\n", "\r"}

\* text.trim()
Trim(s) ==
    LET kept == {k \in 1..Len(s) : s[k] \notin WhiteSpace} IN
    IF kept = {} THEN <<>>
    ELSE SubSeq(s, CHOOSE k \in kept : \A j \in kept : k <= j,
                   CHOOSE k \in kept : \A j \in kept : j <= k)

LowerChars == <<"a","b","c","d","e","f","g","h","i","j","k","l","m","n","o","p","q","r","s","t","u","v","w","x","y","z">>
UpperChars == <<"A","B","C","D","E","F","G","H","I","J","K","L","M","N","O","P","Q","R","S","T","U","V","W","X","Y","Z">>

LowerSet == {LowerChars[k] : k \in 1..Len(LowerChars)}
UpperSet == {UpperChars[k] : k \in 1..Len(UpperChars)}

toLowerCaseChar(c) ==
    IF c \in UpperSet
    THEN LowerChars[CHOOSE k \in 1..Len(UpperChars) : UpperChars[k] = c]
    ELSE c

toUpperCaseChar(c) ==
    IF c \in LowerSet
    THEN UpperChars[CHOOSE k \in 1..Len(LowerChars) : LowerChars[k] = c]
    ELSE c

toLowerCase(s) == [k \in 1..Len(s) |-> toLowerCaseChar(s[k])]

toUpperCase(s) == [k \in 1..Len(s) |-> toUpperCaseChar(s[k])]

Includes(s, c) == \E k \in 1..Len(s) : s[k] = c

\* text.split(sep) for a one-character separator: the pieces between the
\* separators, always at least one piece.
Split(s, sep) ==
    LET at == {k \in 1..Len(s) : s[k] = sep}
        cut(n) == IF n = 0 THEN 0
                  ELSE IF n > Cardinality(at) THEN Len(s) + 1
                  ELSE CHOOSE k \in at : Cardinality({j \in at : j < k}) = n - 1
    IN  [n \in 1..(Cardinality(at) + 1) |-> SubSeq(s, cut(n - 1) + 1, cut(n) - 1)]

\* pieces.join(sep): the empty array joins to the empty text.
RECURSIVE Join(_, _)
Join(pieces, sep) ==
    IF Len(pieces) = 0 THEN <<>>
    ELSE IF Len(pieces) = 1 THEN pieces[1]
    ELSE pieces[1] \o sep \o Join(Tail(pieces), sep)

\* text.replace(/"/g, '""')
DoubleQuotes(s) == Join(Split(s, "\""), <<"\"", "\"">>)

(***************************************************************************)
(* parseCSVLine: one left-to-right scan with the state inQuotes.           *)
(***************************************************************************)
RECURSIVE parseCSVLineScan(_, _, _, _, _)
parseCSVLineScan(line, k, current, inQuotes, vals) ==
    IF k > Len(line) THEN Append(vals, Trim(current))
    ELSE IF line[k] = "\"" THEN
        IF inQuotes /\ k + 1 <= Len(line) /\ line[k + 1] = "\""
        THEN parseCSVLineScan(line, k + 2, Append(current, "\""), inQuotes, vals)
        ELSE parseCSVLineScan(line, k + 1, current, ~inQuotes, vals)
    ELSE IF line[k] = "," /\ ~inQuotes
    THEN parseCSVLineScan(line, k + 1, <<>>, inQuotes, Append(vals, Trim(current)))
    ELSE parseCSVLineScan(line, k + 1, Append(current, line[k]), inQuotes, vals)

parseCSVLine(line) == parseCSVLineScan(line, 1, <<>>, FALSE, <<>>)

(***************************************************************************)
(* JavaScript values, as far as the engine meets them: undefined, and the  *)
(* values JSON.parse returns.  An object is the sequence of its own        *)
(* properties in enumeration order.                                        *)
(***************************************************************************)
Undefined == [t |-> "undefined"]
Null == [t |-> "null"]
Bool(b) == [t |-> "bool", b |-> b]
Num(n) == [t |-> "num", n |-> n]
Str(s) == [t |-> "str", s |-> s]
Arr(el) == [t |-> "arr", el |-> el]
Obj(kv) == [t |-> "obj", kv |-> kv]
BigInt(n) == [t |-> "bigint", n |-> n]

DigitChars == <<"0","1","2","3","4","5","6","7","8","9">>

IsDigit(c) == \E d \in 1..Len(DigitChars) : DigitChars[d] = c

DigitVal(c) == (CHOOSE d \in 1..Len(DigitChars) : DigitChars[d] = c) - 1

RECURSIVE NatOfText(_, _)
NatOfText(s, acc) ==
    IF s = <<>> THEN acc ELSE NatOfText(Tail(s), 10 * acc + DigitVal(Head(s)))

RECURSIVE TextOfNat(_)
TextOfNat(n) ==
    IF n < 10 THEN <<DigitChars[n + 1]>>
    ELSE TextOfNat(n \div 10) \o <<DigitChars[(n % 10) + 1]>>

TextOfInt(n) == IF n < 0 THEN <<"-">> \o TextOfNat(-n) ELSE TextOfNat(n)

\* An integer-index property key ("0", "7", "12"): such keys enumerate first,
\* in ascending order, before the other keys in creation order.
IsArrayIndex(key) ==
    /\ key # <<>>
    /\ Len(key) <= 9
    /\ \A k \in 1..Len(key) : IsDigit(key[k])
    /\ (Len(key) > 1 => key[1] # "0")

HasKey(kv, key) == \E j \in 1..Len(kv) : kv[j].k = key

GetKey(kv, key) == kv[CHOOSE j \in 1..Len(kv) : kv[j].k = key].v

\* obj[key] = v
ObjSet(kv, key, v) ==
    IF HasKey(kv, key)
    THEN [j \in 1..Len(kv) |-> IF kv[j].k = key THEN [k |-> key, v |-> v] ELSE kv[j]]
    ELSE IF IsArrayIndex(key)
    THEN LET before == Cardinality({j \in 1..Len(kv) :
                           /\ IsArrayIndex(kv[j].k)
                           /\ NatOfText(kv[j].k, 0) < NatOfText(key, 0)})
         IN  SubSeq(kv, 1, before) \o <<[k |-> key, v |-> v]>>
             \o SubSeq(kv, before + 1, Len(kv))
    ELSE Append(kv, [k |-> key, v |-> v])

\* Object.assign(target, source): each own property of source is set on target
\* in order; a "__proto__" key goes to the prototype setter and adds no property.
RECURSIVE ObjectAssign(_, _)
ObjectAssign(target, source) ==
    IF source = <<>> THEN target
    ELSE ObjectAssign(
             IF Head(source).k = <<"_","_","p","r","o","t","o","_","_">> THEN target
             ELSE ObjSet(target, Head(source).k, Head(source).v),
             Tail(source))

(***************************************************************************)
(* JSON.parse, for the JSON grammar without fractions and exponents and    *)
(* with the escapes \" \\ \/ \n \r \t.  A result is [ok |-> FALSE] for a   *)
(* SyntaxError, else [ok |-> TRUE, v |-> value] (inner results also carry  *)
(* k, the position after the value).                                       *)
(***************************************************************************)
JSONWhiteSpace == {" ", "\t", "\n", "\r"}

JSONFail == [ok |-> FALSE]

RECURSIVE JSONSkip(_, _)
JSONSkip(s, k) ==
    IF k <= Len(s) /\ s[k] \in JSONWhiteSpace THEN JSONSkip(s, k + 1) ELSE k

StartsWith(s, k, word) ==
    /\ k + Len(word) - 1 <= Len(s)
    /\ SubSeq(s, k, k + Len(word) - 1) = word

RECURSIVE JSONString(_, _, _)
JSONString(s, k, acc) ==
    IF k > Len(s) THEN JSONFail
    ELSE IF s[k] = "\"" THEN [ok |-> TRUE, v |-> Str(acc), k |-> k + 1]
    ELSE IF s[k] \in {"\t", "\n", "\r"} THEN JSONFail
    ELSE IF s[k] = "\\" THEN
        IF k + 1 > Len(s) THEN JSONFail
        ELSE IF s[k + 1] \in {"\"", "\\", "/"}
        THEN JSONString(s, k + 2, Append(acc, s[k + 1]))
        ELSE IF s[k + 1] = "n" THEN JSONString(s, k + 2, Append(acc, "\n"))
        ELSE IF s[k + 1] = "r" THEN JSONString(s, k + 2, Append(acc, "\r"))
        ELSE IF s[k + 1] = "t" THEN JSONString(s, k + 2, Append(acc, "\t"))
        ELSE JSONFail
    ELSE JSONString(s, k + 1, Append(acc, s[k]))

RECURSIVE JSONDigits(_, _)
JSONDigits(s, k) ==
    IF k <= Len(s) /\ IsDigit(s[k]) THEN JSONDigits(s, k + 1) ELSE k

JSONNumber(s, k) ==
    LET neg == s[k] = "-"
        from == IF neg THEN k + 1 ELSE k
        to == IF from <= Len(s) /\ s[from] = "0" THEN from + 1 ELSE JSONDigits(s, from)
        n == NatOfText(SubSeq(s, from, to - 1), 0)
    IN  IF to = from THEN JSONFail
        ELSE [ok |-> TRUE, v |-> Num(IF neg THEN -n ELSE n), k |-> to]

RECURSIVE JSONValue(_, _)
RECURSIVE JSONMembers(_, _, _)
RECURSIVE JSONElements(_, _, _)

\* s[k..] starts a member ("key": value) of an object whose earlier members are kv.
JSONMembers(s, k, kv) ==
    IF k > Len(s) \/ s[k] # "\"" THEN JSONFail
    ELSE LET key == JSONString(s, k + 1, <<>>) IN
         IF ~key.ok THEN JSONFail
         ELSE LET colon == JSONSkip(s, key.k) IN
              IF colon > Len(s) \/ s[colon] # ":" THEN JSONFail
              ELSE LET val == JSONValue(s, JSONSkip(s, colon + 1)) IN
                   IF ~val.ok THEN JSONFail
                   ELSE LET after == JSONSkip(s, val.k)
                            kv2 == ObjSet(kv, key.v.s, val.v)
                        IN  IF after > Len(s) THEN JSONFail
                            ELSE IF s[after] = "}"
                            THEN [ok |-> TRUE, v |-> Obj(kv2), k |-> after + 1]
                            ELSE IF s[after] = ","
                            THEN JSONMembers(s, JSONSkip(s, after + 1), kv2)
                            ELSE JSONFail

\* s[k..] starts an element of an array whose earlier elements are el.
JSONElements(s, k, el) ==
    LET val == JSONValue(s, k) IN
    IF ~val.ok THEN JSONFail
    ELSE LET after == JSONSkip(s, val.k)
             el2 == Append(el, val.v)
         IN  IF after > Len(s) THEN JSONFail
             ELSE IF s[after] = "]"
             THEN [ok |-> TRUE, v |-> Arr(el2), k |-> after + 1]
             ELSE IF s[after] = ","
             THEN JSONElements(s, JSONSkip(s, after + 1), el2)
             ELSE JSONFail

JSONValue(s, k) ==
    IF k > Len(s) THEN JSONFail
    ELSE IF s[k] = "{" THEN
        LET first == JSONSkip(s, k + 1) IN
        IF first <= Len(s) /\ s[first] = "}"
        THEN [ok |-> TRUE, v |-> Obj(<<>>), k |-> first + 1]
        ELSE JSONMembers(s, first, <<>>)
    ELSE IF s[k] = "[" THEN
        LET first == JSONSkip(s, k + 1) IN
        IF first <= Len(s) /\ s[first] = "]"
        THEN [ok |-> TRUE, v |-> Arr(<<>>), k |-> first + 1]
        ELSE JSONElements(s, first, <<>>)
    ELSE IF s[k] = "\"" THEN JSONString(s, k + 1, <<>>)
    ELSE IF s[k] = "-" \/ IsDigit(s[k]) THEN JSONNumber(s, k)
    ELSE IF StartsWith(s, k, <<"t","r","u","e">>)
    THEN [ok |-> TRUE, v |-> Bool(TRUE), k |-> k + 4]
    ELSE IF StartsWith(s, k, <<"f","a","l","s","e">>)
    THEN [ok |-> TRUE, v |-> Bool(FALSE), k |-> k + 5]
    ELSE IF StartsWith(s, k, <<"n","u","l","l">>)
    THEN [ok |-> TRUE, v |-> Null, k |-> k + 4]
    ELSE JSONFail

JSONParse(s) ==
    LET r == JSONValue(s, JSONSkip(s, 1)) IN
    IF r.ok /\ JSONSkip(s, r.k) > Len(s) THEN [ok |-> TRUE, v |-> r.v] ELSE JSONFail

(***************************************************************************)
(* JSON.stringify of such a value.                                         *)
(***************************************************************************)
RECURSIVE JSONQuoteChars(_)
JSONQuoteChars(s) ==
    IF s = <<>> THEN <<>>
    ELSE (IF Head(s) = "\"" THEN <<"\\", "\"">>
          ELSE IF Head(s) = "\\" THEN <<"\\", "\\">>
          ELSE IF Head(s) = "\n" THEN <<"\\", "n">>
          ELSE IF Head(s) = "\r" THEN <<"\\", "r">>
          ELSE IF Head(s) = "\t" THEN <<"\\", "t">>
          ELSE <<Head(s)>>)
         \o JSONQuoteChars(Tail(s))

JSONQuote(s) == <<"\"">> \o JSONQuoteChars(s) \o <<"\"">>

\* JSON.stringify throws a TypeError on a BigInt and gives no text.
JSONSerializable(v) == v.t # "bigint"

RECURSIVE JSONStringify(_)
JSONStringify(v) ==
    IF v.t = "null" THEN <<"n","u","l","l">>
    ELSE IF v.t = "bool" THEN (IF v.b THEN <<"t","r","u","e">> ELSE <<"f","a","l","s","e">>)
    ELSE IF v.t = "num" THEN TextOfInt(v.n)
    ELSE IF v.t = "str" THEN JSONQuote(v.s)
    ELSE IF v.t = "arr"
    THEN <<"[">> \o Join([j \in 1..Len(v.el) |-> JSONStringify(v.el[j])], <<",">>) \o <<"]">>
    ELSE <<"{">>
         \o Join([j \in 1..Len(v.kv) |->
                     JSONQuote(v.kv[j].k) \o <<":">> \o JSONStringify(v.kv[j].v)], <<",">>)
         \o <<"}">>

(***************************************************************************)
(* The column roles.                                                       *)
(***************************************************************************)
COLUMN_NAME == <<"n","a","m","e">>
COLUMN_CONTENT == <<"c","o","n","t","e","n","t">>
COLUMN_TYPE == <<"t","y","p","e">>
COLUMN_METADATA == <<"m","e","t","a","d","a","t","a">>

REQUIRED_KEYS == <<COLUMN_NAME, COLUMN_TYPE>>

KEYS_OUTSIDE_CONTENT == <<COLUMN_NAME, COLUMN_TYPE, COLUMN_METADATA>>

\* The reserved payload key of a content cell that is no plain object.
CONTENT_KEY == <<"C","O","N","T","E","N","T">>

\* findIndex comparing the names as they are spelt.
FindIndexCaseSensitive(columnNames, key) ==
    LET hits == {k \in 1..Len(columnNames) : columnNames[k] = key}
    IN  IF hits = {} THEN 0 ELSE CHOOSE k \in hits : \A h \in hits : k <= h

\* columnNames.findIndex(col => col.toLowerCase() === key.toLowerCase()),
\* 0 when there is none.
FindIndex(columnNames, key) ==
    LET lowerKey == toLowerCase(key)
        hits == {k \in 1..Len(columnNames) : toLowerCase(columnNames[k]) = lowerKey}
    IN  IF hits = {} THEN 0 ELSE CHOOSE k \in hits : \A h \in hits : k <= h

\* parseHeader without the filter of the empty names.
parseHeaderUnfiltered(headerLine) ==
    LET cells == parseCSVLine(headerLine) IN
    [k \in 1..Len(cells) |-> Trim(cells[k])]

\* null is modelled by <<>>: a header that resolves has at least one name.
parseHeader(headerLine) ==
    LET cells == parseCSVLine(headerLine) IN
    SelectSeq([k \in 1..Len(cells) |-> Trim(cells[k])], LAMBDA col : col # <<>>)

\* A Map<number, string> is the function from its keys to its values.
findColumnIndices(columnNames, keys) ==
    LET found == {pair \in {<<FindIndex(columnNames, keys[k]), k>> : k \in 1..Len(keys)} :
                     pair[1] # 0}
    IN  [index \in {pair[1] : pair \in found} |->
            keys[CHOOSE k \in 1..Len(keys) :
                    /\ <<index, k>> \in found
                    /\ \A pair \in found : pair[1] = index => pair[2] <= k]]

\* validateRequiredKeys looking for the first required key only.
validateRequiredKeysFirstOnly(columnNames) ==
    IF FindIndex(columnNames, REQUIRED_KEYS[1]) = 0
    THEN [ok |-> FALSE]
    ELSE [ok |-> TRUE, indices |-> findColumnIndices(columnNames, REQUIRED_KEYS)]

\* [ok |-> FALSE] models the null result.
validateRequiredKeys(columnNames) ==
    IF \E k \in 1..Len(REQUIRED_KEYS) : FindIndex(columnNames, REQUIRED_KEYS[k]) = 0
    THEN [ok |-> FALSE]
    ELSE [ok |-> TRUE, indices |-> findColumnIndices(columnNames, REQUIRED_KEYS)]

findContentColumnIndex(columnNames) == FindIndex(columnNames, COLUMN_CONTENT)

\* The Map<string, string> of the role values a row has a cell for.
extractKeysOutsideContent(vals, keysOutsideContentIndices) ==
    LET present == {index \in DOMAIN keysOutsideContentIndices : index <= Len(vals)}
    IN  [key \in {keysOutsideContentIndices[index] : index \in present} |->
            Trim(vals[CHOOSE index \in present :
                         keysOutsideContentIndices[index] = key])]

\* The loop of buildContent over the columns from position k on.
RECURSIVE buildContentColumns(_, _, _, _, _, _)
buildContentColumns(vals, columnNames, keysOutsideContentIndices, contentColumnIndex, k, contentObject) ==
    IF k > Len(columnNames) \/ k > Len(vals) THEN contentObject
    ELSE buildContentColumns(vals, columnNames, keysOutsideContentIndices,
             contentColumnIndex, k + 1,
             IF /\ k \notin DOMAIN keysOutsideContentIndices
                /\ k # contentColumnIndex
                /\ Trim(vals[k]) # <<>>
             THEN LET value == Trim(vals[k])
                      upperKey == toUpperCase(columnNames[k])
                      parsedValue == JSONParse(value)
                  IN  ObjSet(contentObject, upperKey,
                             IF parsedValue.ok THEN parsedValue.v ELSE Str(value))
             ELSE contentObject)

\* The merge with the keys of the content object uppercased like the others.
mergeContentColumnUppercased(vals, contentColumnIndex, contentObject) ==
    IF contentColumnIndex = 0 \/ contentColumnIndex > Len(vals) THEN contentObject
    ELSE LET contentColumnValue == Trim(vals[contentColumnIndex])
             parsedContent == JSONParse(contentColumnValue)
         IN  IF contentColumnValue = <<>> THEN contentObject
             ELSE IF ~parsedContent.ok
             THEN ObjSet(contentObject, CONTENT_KEY, Str(contentColumnValue))
             ELSE IF parsedContent.v.t = "obj"
             THEN ObjectAssign(contentObject,
                      [j \in 1..Len(parsedContent.v.kv) |->
                          [k |-> toUpperCase(parsedContent.v.kv[j].k),
                           v |-> parsedContent.v.kv[j].v]])
             ELSE ObjSet(contentObject, CONTENT_KEY, parsedContent.v)

\* The merge of the content column into the payload of the other columns.
mergeContentColumn(vals, contentColumnIndex, contentObject) ==
    IF contentColumnIndex = 0 \/ contentColumnIndex > Len(vals) THEN contentObject
    ELSE LET contentColumnValue == Trim(vals[contentColumnIndex])
             parsedContent == JSONParse(contentColumnValue)
         IN  IF contentColumnValue = <<>> THEN contentObject
             ELSE IF ~parsedContent.ok
             THEN ObjSet(contentObject, CONTENT_KEY, Str(contentColumnValue))
             ELSE IF parsedContent.v.t = "obj"
             THEN ObjectAssign(contentObject, parsedContent.v.kv)
             ELSE ObjSet(contentObject, CONTENT_KEY, parsedContent.v)

buildContent(vals, columnNames, keysOutsideContentIndices, contentColumnIndex) ==
    JSONStringify(Obj(
        mergeContentColumn(vals, contentColumnIndex,
            buildContentColumns(vals, columnNames, keysOutsideContentIndices,
                                contentColumnIndex, 1, <<>>))))

\* validateRowHasRequiredKeys asking for the cells only, not for a value in them.
validateRowHasRequiredKeysCellsOnly(vals, requiredKeysIndices) ==
    \A index \in DOMAIN requiredKeysIndices : index <= Len(vals)

validateRowHasRequiredKeys(vals, requiredKeysIndices) ==
    \A index \in DOMAIN requiredKeysIndices :
        index <= Len(vals) /\ Trim(vals[index]) # <<>>

\* map.get(key) || ""
GetOrEmpty(map, key) == IF key \in DOMAIN map THEN map[key] ELSE <<>>

\* [threw |-> TRUE, message] for a thrown Error, else [threw |-> FALSE, row].
processRow(line, columnNames, requiredKeysIndices, keysOutsideContentIndices, contentColumnIndex) ==
    IF Trim(line) = <<>>
    THEN [threw |-> TRUE, message |-> "Empty row found in the CSV file"]
    ELSE LET vals == parseCSVLine(line) IN
         IF ~validateRowHasRequiredKeys(vals, requiredKeysIndices)
         THEN [threw |-> TRUE, message |-> "Required keys not found in the CSV row"]
         ELSE LET keysOutsideContentValues ==
                      extractKeysOutsideContent(vals, keysOutsideContentIndices)
                  hasMetadata == COLUMN_METADATA \in DOMAIN keysOutsideContentValues
                  finalContent ==
                      IF hasMetadata /\ contentColumnIndex # 0
                      THEN IF contentColumnIndex <= Len(vals)
                           THEN Trim(vals[contentColumnIndex])
                           ELSE <<>>
                      ELSE buildContent(vals, columnNames,
                                        keysOutsideContentIndices, contentColumnIndex)
              IN  [threw |-> FALSE,
                   row |-> [name |-> GetOrEmpty(keysOutsideContentValues, COLUMN_NAME),
                            content |-> finalContent,
                            type |-> GetOrEmpty(keysOutsideContentValues, COLUMN_TYPE),
                            metadata |-> GetOrEmpty(keysOutsideContentValues,
                                                    COLUMN_METADATA)]]

(***************************************************************************)
(* parseCSV: the locals it derives from csvText, and the whole function.   *)
(***************************************************************************)
Lines(text) == Split(Trim(text), "\n")

HeaderLine(text) == Lines(text)[1]

DataLines(text) == Tail(Lines(text))

\* parseCSV without the check of the number of lines.
FatalErrorLinesUnchecked(text) ==
    LET columnNames == parseHeader(Lines(text)[1])
    IN  IF columnNames = <<>>
        THEN "No column names found in the CSV header"
        ELSE IF ~validateRequiredKeys(columnNames).ok
        THEN "Required keys not found in the CSV header"
        ELSE ""

\* The message of the fatal Error parseCSV throws before its loop, "" if none.
FatalError(text) ==
    LET lines == Lines(text)
        columnNames == parseHeader(lines[1])
    IN  IF Len(lines) = 0 \/ Len(lines) = 1
        THEN "No lines found in the CSV file"
        ELSE IF columnNames = <<>>
        THEN "No column names found in the CSV header"
        ELSE IF ~validateRequiredKeys(columnNames).ok
        THEN "Required keys not found in the CSV header"
        ELSE ""

\* processRow as parseCSV calls it for one data line of the document.
RowOf(text, line) ==
    LET columnNames == parseHeader(HeaderLine(text)) IN
    processRow(line, columnNames,
               validateRequiredKeys(columnNames).indices,
               findColumnIndices(columnNames, KEYS_OUTSIDE_CONTENT),
               findContentColumnIndex(columnNames))

\* The loop of parseCSV: a throwing row is logged and left out.
RECURSIVE CollectRows(_, _, _)
CollectRows(text, dataLines, acc) ==
    IF dataLines = <<>> THEN acc
    ELSE LET row == RowOf(text, Head(dataLines)) IN
         CollectRows(text, Tail(dataLines),
                     IF row.threw THEN acc ELSE Append(acc, row.row))

parseCSV(text) ==
    LET fatal == FatalError(text) IN
    IF fatal # ""
    THEN [threw |-> TRUE, message |-> fatal]
    ELSE [threw |-> FALSE, rows |-> CollectRows(text, DataLines(text), <<>>)]

(***************************************************************************)
(* The serializer.                                                         *)
(***************************************************************************)
\* String(value) of a value that is no object.
StringOf(value) ==
    IF value.t = "str" THEN value.s
    ELSE IF value.t = "num" \/ value.t = "bigint" THEN TextOfInt(value.n)
    ELSE IF value.b THEN <<"t","r","u","e">> ELSE <<"f","a","l","s","e">>

\* escapeCSVValue wrapping in quotes without doubling the quotes inside.
escapeCSVValueNoDoubling(value) ==
    IF value.t = "null" \/ value.t = "undefined" THEN <<>>
    ELSE LET stringValue ==
                 IF value.t = "obj" \/ value.t = "arr"
                 THEN JSONStringify(value)
                 ELSE StringOf(value)
         IN  IF \/ Includes(stringValue, ",")
                \/ Includes(stringValue, "\"")
                \/ Includes(stringValue, "\n")
             THEN <<"\"">> \o stringValue \o <<"\"">>
             ELSE stringValue

\* escapeCSVValue that leaves a text with a newline unwrapped.
escapeCSVValueNoNewline(value) ==
    IF value.t = "null" \/ value.t = "undefined" THEN <<>>
    ELSE LET stringValue ==
                 IF value.t = "obj" \/ value.t = "arr"
                 THEN JSONStringify(value)
                 ELSE StringOf(value)
         IN  IF \/ Includes(stringValue, ",")
                \/ Includes(stringValue, "\"")
             THEN <<"\"">> \o DoubleQuotes(stringValue) \o <<"\"">>
             ELSE stringValue

escapeCSVValue(value) ==
    IF value.t = "null" \/ value.t = "undefined" THEN <<>>
    ELSE LET stringValue ==
                 IF value.t = "obj" \/ value.t = "arr"
                 THEN JSONStringify(value)
                 ELSE StringOf(value)
         IN  IF \/ Includes(stringValue, ",")
                \/ Includes(stringValue, "\"")
                \/ Includes(stringValue, "\n")
             THEN <<"\"">> \o DoubleQuotes(stringValue) \o <<"\"">>
             ELSE stringValue

\* row.map(escapeCSVValue).join(",")
csvRow(row) == Join([k \in 1..Len(row) |-> escapeCSVValue(row[k])], <<",">>)

\* generateCSV without the line of the headers.
generateCSVNoHeaders(headers, rowValues) ==
    Join([r \in 1..Len(rowValues) |-> csvRow(rowValues[r])], <<"\n">>)

\* generateCSV ending every row, the last one too, with a newline.
generateCSVTrailingNewline(headers, rowValues) ==
    Join(<<csvRow([k \in 1..Len(headers) |-> Str(headers[k])])>>
         \o [r \in 1..Len(rowValues) |-> csvRow(rowValues[r])], <<"\n">>)
    \o <<"\n">>

generateCSV(headers, rowValues) ==
    Join(<<csvRow([k \in 1..Len(headers) |-> Str(headers[k])])>>
         \o [r \in 1..Len(rowValues) |-> csvRow(rowValues[r])], <<"\n">>)

(***************************************************************************)
(* The inputs.  A document is a header line followed by at most MaxRows    *)
(* data lines, joined by newlines.                                         *)
(***************************************************************************)
MaxRows == 2

MaxValues == 2

HeaderPool ==
    { <<"n","a","m","e",",","t","y","p","e",",","c","o","n","t","e","n","t",",","b">>,
      <<"n","a","m","e",",","t","y","p","e",",","c","o","n","t","e","n","t",",","m","e","t","a","d","a","t","a">>,
      <<"N","a","m","e",",","T","Y","P","E",",","N","A","M","E">>,
      <<",","n","a","m","e",",","t","y","p","e",",","c","o","n","t","e","n","t",",","m","e","t","a","d","a","t","a">>,
      <<",","n","a","m","e",",","t","y","p","e",",","c","o","n","t","e","n","t",",","b">>,
      <<"n","a","m","e",",","c","o","n","t","e","n","t">>,
      <<"t","y","p","e",",","b">>,
      <<",",",">>,
      <<",","n","a","m","e",",","t","y","p","e",",","N","A","M","E">>,
      <<"t","y","p","e",",","n","a","m","e",",","c","o","n","t","e","n","t",",","m","e","t","a","d","a","t","a",",","T","Y","P","E">>,
      <<>> }

LinePool ==
    { <<>>,
      <<"a",",","t">>,
      <<",","t",",","x">>,
      <<"a",",","t",",","\"","{","\"","\"","a","\"","\"",":","1","}","\"",",","2">>,
      <<"b",",","u",",","\"","{","\"","\"","B","\"","\"",":","1","}","\"",",","2">>,
      <<"\"","G"," ","B","\"",",","e","x",",","\"","{","\"","\"","s","\"","\"",":","\"","\"","B","/","U","\"","\"","}","\"">>,
      <<"x",",","a",",","t",",","\"","{","\"","\"","B","\"","\"",":","1","}","\"",",","2">>,
      <<"p",",","t",",","\"","{","\"","\"","_","_","p","r","o","t","o","_","_","\"","\"",":","1","}","\"">>,
      <<"x",",","a",",","t",",","z","z">> }

SeqsUpTo(pool, n) == UNION {[1..m -> pool] : m \in 0..n}

Documents ==
    {Join(<<h>> \o ls, <<"\n">>) : h \in HeaderPool, ls \in SeqsUpTo(LinePool, MaxRows)}

\* Documents of plain cells (no comma, quote or newline inside a value).
PlainHeaderPool ==
    { <<"n","a","m","e",",","t","y","p","e",",","c","o","n","t","e","n","t",",","m","e","t","a","d","a","t","a">>,
      <<"t","y","p","e",",","m","e","t","a","d","a","t","a",",","n","a","m","e",",","c","o","n","t","e","n","t">>,
      <<"n","a","m","e",",","t","y","p","e">>,
      <<"n","a","m","e",",","t","y","p","e",",","c","o","n","t","e","n","t">>,
      <<"N","a","m","e",",","t","y","p","e",",","c","o","n","t","e","n","t",",","m","e","t","a","d","a","t","a">> }

PlainLinePool ==
    { <<>>,
      <<"a",",","t",",","c",",","m">>,
      <<"b",",","u",",",",","n">>,
      <<"a",",","t">>,
      <<"a",",","t",",","c",",">>,
      <<" ","a",",","t",",","c",",","m">>,
      <<",","t",",","c",",","m">>,
      <<"a",",","t",",","7">> }

PlainDocuments ==
    {Join(<<h>> \o ls, <<"\n">>) :
        h \in PlainHeaderPool, ls \in SeqsUpTo(PlainLinePool, MaxRows)}

\* The values given to the serializer.
ValuePool ==
    { <<>>,
      <<"a">>,
      <<"a",",","b">>,
      <<"\"">>,
      <<"x","\"","y","\"">>,
      <<"H","e"," ","s","a","i","d"," ","\"","h","i","\"",","," ","t","w","i","c","e">>,
      <<"p","\n","q">>,
      <<",">>,
      <<" ","a">> }

\* The values that are no texts: null, undefined, numbers, booleans, a
\* BigInt, an array and objects.
OtherValues ==
    { Null, Undefined, Num(7), Num(-1), Bool(TRUE), Bool(FALSE), BigInt(10),
      Arr(<<Num(1), Str(<<"x","\"","y">>)>>),
      Obj(<<[k |-> <<"a">>, v |-> Str(<<"b",",","c">>)]>>),
      Obj(<<>>) }

CodecValues == {Str(text) : text \in ValuePool} \cup OtherValues

\* The variables of the machines that are not running.
CodecIdle ==
    /\ values = <<>>
    /\ escaped = <<>>
    /\ joined = <<>>
    /\ tokens = <<>>
    /\ exportHeaders = <<>>
    /\ exportRows = <<>>

ScanIdle ==
    /\ scanLine = <<>>
    /\ scanIndex = 0
    /\ scanCurrent = <<>>
    /\ scanInQuotes = FALSE
    /\ scanValues = <<>>

CallsIdle ==
    /\ calls = <<>>
    /\ heap = <<>>

\* ImportTask as it is mounted, with no file and no request in flight.
DialogIdle ==
    /\ isOpen = FALSE
    /\ selectedFile = Null
    /\ parsedTasks = <<>>
    /\ isParsing = FALSE
    /\ parsing = Null
    /\ importing = FALSE
    /\ sent = <<>>
    /\ invalidations = 0
    /\ toast = ""

\* No credentials stored, no login attempt in flight, the login page shown.
AuthIdle ==
    /\ localStorage = <<>>
    /\ pendingLogins = 0
    /\ location = "/login"
    /\ lastHandler = "none"

OutsideIdle == CallsIdle /\ DialogIdle /\ AuthIdle

ParseIdle ==
    /\ csvText = <<>>
    /\ lineNo = 0
    /\ rows = <<>>
    /\ outcome = "idle"
    /\ thrown = ""
    /\ exported = <<>>

(***************************************************************************)
(* parseCSV as the caller runs it on csvText: the checks before the loop,  *)
(* one step per data line, the return.                                     *)
(***************************************************************************)
Init ==
    /\ csvText \in Documents
    /\ pc = "parse"
    /\ lineNo = 0
    /\ rows = <<>>
    /\ outcome = "running"
    /\ thrown = ""
    /\ ScanIdle
    /\ OutsideIdle
    /\ exported = <<>>
    /\ CodecIdle

ParseCSVBegin ==
    /\ pc = "parse"
    /\ IF FatalError(csvText) # ""
       THEN /\ pc' = "done"
            /\ outcome' = "threw"
            /\ thrown' = FatalError(csvText)
            /\ lineNo' = lineNo
       ELSE /\ pc' = "rows"
            /\ outcome' = outcome
            /\ thrown' = thrown
            /\ lineNo' = 1
    /\ UNCHANGED <<csvText, rows, exported>>
    /\ UNCHANGED <<codecVars, scanVars>>
    /\ UNCHANGED outsideVars

\* The loop step without the try/catch: a throwing row ends parseCSV.
ParseCSVRowNoCatch ==
    /\ pc = "rows"
    /\ LET dataLines == DataLines(csvText) IN
       /\ lineNo <= Len(dataLines)
       /\ LET row == RowOf(csvText, dataLines[lineNo]) IN
          IF row.threw
          THEN /\ rows' = rows
               /\ pc' = "done"
               /\ outcome' = "threw"
               /\ thrown' = row.message
          ELSE /\ rows' = Append(rows, row.row)
               /\ UNCHANGED <<pc, outcome, thrown>>
    /\ lineNo' = lineNo + 1
    /\ UNCHANGED <<csvText, exported>>
    /\ UNCHANGED <<codecVars, scanVars>>
    /\ UNCHANGED outsideVars

\* The loop step with rows.unshift(row) for rows.push(row).
ParseCSVRowUnshift ==
    /\ pc = "rows"
    /\ LET dataLines == DataLines(csvText) IN
       /\ lineNo <= Len(dataLines)
       /\ LET row == RowOf(csvText, dataLines[lineNo]) IN
          rows' = IF row.threw THEN rows ELSE <<row.row>> \o rows
    /\ lineNo' = lineNo + 1
    /\ UNCHANGED <<csvText, pc, outcome, thrown, exported>>
    /\ UNCHANGED <<codecVars, scanVars>>
    /\ UNCHANGED outsideVars

ParseCSVRow ==
    /\ pc = "rows"
    /\ LET dataLines == DataLines(csvText) IN
       /\ lineNo <= Len(dataLines)
       /\ LET row == RowOf(csvText, dataLines[lineNo]) IN
          rows' = IF row.threw THEN rows ELSE Append(rows, row.row)
    /\ lineNo' = lineNo + 1
    /\ UNCHANGED <<csvText, pc, outcome, thrown, exported>>
    /\ UNCHANGED <<codecVars, scanVars>>
    /\ UNCHANGED outsideVars

ParseCSVReturn ==
    /\ pc = "rows"
    /\ lineNo > Len(DataLines(csvText))
    /\ pc' = "done"
    /\ outcome' = "returned"
    /\ UNCHANGED <<csvText, lineNo, rows, thrown, exported>>
    /\ UNCHANGED <<codecVars, scanVars>>
    /\ UNCHANGED outsideVars

Next ==
    \/ ParseCSVBegin
    \/ ParseCSVRow
    \/ ParseCSVReturn

Spec == Init /\ [][Next]_vars

(***************************************************************************)
(* Import followed by export: the records parseCSV returned are handed to  *)
(* generateCSV, one column per field of CSVRow.                            *)
(***************************************************************************)
RecordHeaders == <<COLUMN_NAME, COLUMN_CONTENT, COLUMN_TYPE, COLUMN_METADATA>>

RecordValues(row) ==
    <<Str(row.name), Str(row.content), Str(row.type), Str(row.metadata)>>

InitRoundTrip ==
    /\ csvText \in PlainDocuments
    /\ pc = "parse"
    /\ lineNo = 0
    /\ rows = <<>>
    /\ outcome = "running"
    /\ thrown = ""
    /\ ScanIdle
    /\ OutsideIdle
    /\ exported = <<>>
    /\ CodecIdle

ExportRecords ==
    /\ pc = "done"
    /\ outcome = "returned"
    /\ exported' = generateCSV(RecordHeaders,
                               [r \in 1..Len(rows) |-> RecordValues(rows[r])])
    /\ pc' = "exported"
    /\ UNCHANGED <<csvText, lineNo, rows, outcome, thrown>>
    /\ UNCHANGED <<codecVars, scanVars>>
    /\ UNCHANGED outsideVars

NextRoundTrip ==
    \/ ParseCSVBegin
    \/ ParseCSVRow
    \/ ParseCSVReturn
    \/ ExportRecords

SpecRoundTrip == InitRoundTrip /\ [][NextRoundTrip]_vars

(***************************************************************************)
(* Export followed by tokenizing: a row of values is escaped value by      *)
(* value, joined with commas, and the line is read back by parseCSVLine.   *)
(***************************************************************************)
InitCodec ==
    /\ values \in SeqsUpTo(CodecValues, MaxValues)
    /\ escaped = <<>>
    /\ joined = <<>>
    /\ tokens = <<>>
    /\ exportHeaders = <<>>
    /\ exportRows = <<>>
    /\ ParseIdle
    /\ ScanIdle
    /\ OutsideIdle
    /\ pc = "escape"

EscapeValue ==
    /\ pc = "escape"
    /\ Len(escaped) < Len(values)
    /\ escaped' = Append(escaped, escapeCSVValue(values[Len(escaped) + 1]))
    /\ UNCHANGED <<values, joined, tokens, exportHeaders, exportRows>>
    /\ UNCHANGED <<parseVars, scanVars>>
    /\ UNCHANGED outsideVars

JoinRow ==
    /\ pc = "escape"
    /\ Len(escaped) = Len(values)
    /\ joined' = Join(escaped, <<",">>)
    /\ pc' = "joined"
    /\ UNCHANGED <<values, escaped, tokens, exportHeaders, exportRows>>
    /\ UNCHANGED <<csvText, lineNo, rows, outcome, thrown, exported>>
    /\ UNCHANGED scanVars
    /\ UNCHANGED outsideVars

TokenizeRow ==
    /\ pc = "joined"
    /\ tokens' = parseCSVLine(joined)
    /\ pc' = "tokenized"
    /\ UNCHANGED <<values, escaped, joined, exportHeaders, exportRows>>
    /\ UNCHANGED <<csvText, lineNo, rows, outcome, thrown, exported>>
    /\ UNCHANGED scanVars
    /\ UNCHANGED outsideVars

NextCodec ==
    \/ EscapeValue
    \/ JoinRow
    \/ TokenizeRow

SpecCodec == InitCodec /\ [][NextCodec]_vars



(***************************************************************************)
(* parseCSVLine run step by step on scanLine: one step per iteration of    *)
(* its loop, and the push of the last field when the loop is left.         *)
(* scanIndex is the 1-based position of the loop variable i.               *)
(***************************************************************************)
MaxScanLen == 4

\* A letter, a comma, a quote character and a space.
ScanAlphabet == {"a", ",", "\"", " "}

ScanLines == UNION {[1..n -> ScanAlphabet] : n \in 0..MaxScanLen}

InitScan ==
    /\ scanLine \in ScanLines
    /\ scanIndex = 1
    /\ scanCurrent = <<>>
    /\ scanInQuotes = FALSE
    /\ scanValues = <<>>
    /\ ParseIdle
    /\ CodecIdle
    /\ OutsideIdle
    /\ pc = "scan"

\* The loop body with an escaped quote that consumes one character only.
ScanStepNoSkip ==
    /\ pc = "scan"
    /\ scanIndex <= Len(scanLine)
    /\ LET char == scanLine[scanIndex]
       IN  IF char = "\"" THEN
               IF /\ scanInQuotes
                  /\ scanIndex + 1 <= Len(scanLine)
                  /\ scanLine[scanIndex + 1] = "\""
               THEN /\ scanCurrent' = Append(scanCurrent, "\"")
                    /\ scanIndex' = scanIndex + 1
                    /\ UNCHANGED <<scanInQuotes, scanValues>>
               ELSE /\ scanInQuotes' = ~scanInQuotes
                    /\ scanIndex' = scanIndex + 1
                    /\ UNCHANGED <<scanCurrent, scanValues>>
           ELSE IF char = "," /\ ~scanInQuotes
           THEN /\ scanValues' = Append(scanValues, Trim(scanCurrent))
                /\ scanCurrent' = <<>>
                /\ scanIndex' = scanIndex + 1
                /\ UNCHANGED scanInQuotes
           ELSE /\ scanCurrent' = Append(scanCurrent, char)
                /\ scanIndex' = scanIndex + 1
                /\ UNCHANGED <<scanInQuotes, scanValues>>
    /\ UNCHANGED <<scanLine, pc>>
    /\ UNCHANGED <<csvText, lineNo, rows, outcome, thrown, exported>>
    /\ UNCHANGED codecVars
    /\ UNCHANGED outsideVars

\* The loop that leaves a field holding nothing out of the result.
ScanStepSkipEmpty ==
    /\ pc = "scan"
    /\ scanIndex <= Len(scanLine)
    /\ LET char == scanLine[scanIndex]
       IN  IF char = "\"" THEN
               IF /\ scanInQuotes
                  /\ scanIndex + 1 <= Len(scanLine)
                  /\ scanLine[scanIndex + 1] = "\""
               THEN /\ scanCurrent' = Append(scanCurrent, "\"")
                    /\ scanIndex' = scanIndex + 2
                    /\ UNCHANGED <<scanInQuotes, scanValues>>
               ELSE /\ scanInQuotes' = ~scanInQuotes
                    /\ scanIndex' = scanIndex + 1
                    /\ UNCHANGED <<scanCurrent, scanValues>>
           ELSE IF char = "," /\ ~scanInQuotes
           THEN /\ scanValues' = IF Trim(scanCurrent) = <<>> THEN scanValues
                                 ELSE Append(scanValues, Trim(scanCurrent))
                /\ scanCurrent' = <<>>
                /\ scanIndex' = scanIndex + 1
                /\ UNCHANGED scanInQuotes
           ELSE /\ scanCurrent' = Append(scanCurrent, char)
                /\ scanIndex' = scanIndex + 1
                /\ UNCHANGED <<scanInQuotes, scanValues>>
    /\ UNCHANGED <<scanLine, pc>>
    /\ UNCHANGED <<csvText, lineNo, rows, outcome, thrown, exported>>
    /\ UNCHANGED codecVars
    /\ UNCHANGED outsideVars

\* One iteration of the loop, with the i++ of the loop header.
ScanStep ==
    /\ pc = "scan"
    /\ scanIndex <= Len(scanLine)
    /\ LET char == scanLine[scanIndex]
       IN  IF char = "\"" THEN
               IF /\ scanInQuotes
                  /\ scanIndex + 1 <= Len(scanLine)
                  /\ scanLine[scanIndex + 1] = "\""
               THEN /\ scanCurrent' = Append(scanCurrent, "\"")
                    /\ scanIndex' = scanIndex + 2
                    /\ UNCHANGED <<scanInQuotes, scanValues>>
               ELSE /\ scanInQuotes' = ~scanInQuotes
                    /\ scanIndex' = scanIndex + 1
                    /\ UNCHANGED <<scanCurrent, scanValues>>
           ELSE IF char = "," /\ ~scanInQuotes
           THEN /\ scanValues' = Append(scanValues, Trim(scanCurrent))
                /\ scanCurrent' = <<>>
                /\ scanIndex' = scanIndex + 1
                /\ UNCHANGED scanInQuotes
           ELSE /\ scanCurrent' = Append(scanCurrent, char)
                /\ scanIndex' = scanIndex + 1
                /\ UNCHANGED <<scanInQuotes, scanValues>>
    /\ UNCHANGED <<scanLine, pc>>
    /\ UNCHANGED <<csvText, lineNo, rows, outcome, thrown, exported>>
    /\ UNCHANGED codecVars
    /\ UNCHANGED outsideVars

\* The loop is left: the last field is pushed and the fields are returned.
ScanReturn ==
    /\ pc = "scan"
    /\ scanIndex > Len(scanLine)
    /\ scanValues' = Append(scanValues, Trim(scanCurrent))
    /\ pc' = "scanned"
    /\ UNCHANGED <<scanLine, scanIndex, scanCurrent, scanInQuotes>>
    /\ UNCHANGED <<csvText, lineNo, rows, outcome, thrown, exported>>
    /\ UNCHANGED codecVars
    /\ UNCHANGED outsideVars

NextScan ==
    \/ ScanStep
    \/ ScanReturn

SpecScan == InitScan /\ [][NextScan]_vars

(***************************************************************************)
(* Export followed by import: generateCSV(headers, rowValues) is handed to *)
(* parseCSV.  The headers hold name and type; the values under them are    *)
(* texts that are not empty, the other values are texts or null.           *)
(***************************************************************************)
ExportHeaderPool ==
    { <<COLUMN_NAME, COLUMN_TYPE>>,
      <<COLUMN_CONTENT, COLUMN_NAME, COLUMN_TYPE>>,
      << <<>>, COLUMN_NAME, COLUMN_TYPE>> }

ExportNamePool == { <<"a">>, <<" ","x","\"",",","y">>, <<"p","\n","q">>, <<" ">> }

ExportTypePool == { <<"t">>, <<"u","\n","v">> }

ExportOtherPool == { Str(<<"c",",","d">>), Str(<<"p","\n","q">>), Null }

ExportRowsOf(names) ==
    {row \in [1..Len(names) -> {Str(text) : text \in ExportNamePool \cup ExportTypePool}
                                   \cup ExportOtherPool] :
        \A k \in 1..Len(names) :
            IF names[k] = COLUMN_NAME THEN row[k] \in {Str(text) : text \in ExportNamePool}
            ELSE IF names[k] = COLUMN_TYPE THEN row[k] \in {Str(text) : text \in ExportTypePool}
            ELSE row[k] \in ExportOtherPool}

InitReimport ==
    /\ exportHeaders \in ExportHeaderPool
    /\ exportRows \in UNION {[1..n -> ExportRowsOf(exportHeaders)] : n \in 1..MaxRows}
    /\ values = <<>>
    /\ escaped = <<>>
    /\ joined = <<>>
    /\ tokens = <<>>
    /\ ParseIdle
    /\ ScanIdle
    /\ OutsideIdle
    /\ pc = "generate"

\* The export, and the call of parseCSV on its text.
GenerateCSV ==
    /\ pc = "generate"
    /\ csvText' = generateCSV(exportHeaders, exportRows)
    /\ pc' = "parse"
    /\ outcome' = "running"
    /\ UNCHANGED <<lineNo, rows, thrown, exported>>
    /\ UNCHANGED <<codecVars, scanVars>>
    /\ UNCHANGED outsideVars

NextReimport ==
    \/ GenerateCSV
    \/ ParseCSVBegin
    \/ ParseCSVRow
    \/ ParseCSVReturn

SpecReimport == InitReimport /\ [][NextReimport]_vars

(***************************************************************************)
(* Several calls of parseCSV and generateCSV in flight at once.  Each call *)
(* has its frame (its arguments, its position and the reference of the     *)
(* array it builds); the arrays live in the heap, the one thing the calls  *)
(* have in common.  The module keeps no variable besides its constants.    *)
(***************************************************************************)
MaxCalls == 2

CallIds == 1..MaxCalls

ParseArguments ==
    { [kind |-> "parse", csvText |-> <<"n","a","m","e",",","t","y","p","e","\n","a",",","t","\n",",","u","\n","b",",","v">>],
      [kind |-> "parse", csvText |-> <<"n","a","m","e",",","t","y","p","e","\n","c",",","w">>],
      [kind |-> "parse", csvText |-> <<"n","a","m","e","\n","a">>] }

GenerateArguments ==
    { [kind |-> "generate", headers |-> <<COLUMN_NAME, COLUMN_TYPE>>,
       rowValues |-> << <<Str(<<"a">>), Str(<<"t">>)>>, <<Str(<<"b",",","c">>), Null>> >>],
      [kind |-> "generate", headers |-> <<COLUMN_NAME>>,
       rowValues |-> << <<Str(<<"d">>)>> >>] }

NewFrame(arguments) ==
    [arguments |-> arguments, pc |-> "called", index |-> 0, array |-> 0,
     outcome |-> "running", result |-> <<>>]

InitCalls ==
    /\ calls \in [CallIds -> {NewFrame(arguments) :
                                 arguments \in ParseArguments \cup GenerateArguments}]
    /\ heap = <<>>
    /\ ParseIdle
    /\ CodecIdle
    /\ ScanIdle
    /\ DialogIdle
    /\ AuthIdle
    /\ pc = "calls"

\* new Array(): a reference no call holds yet.
NewArray == Len(heap) + 1

EngineIdle == UNCHANGED <<parseVars, codecVars, scanVars, dialogVars, authVars>>

\* parseCSV building its rows in one array of the module, not in its own.
CallParseBeginShared(c) ==
    /\ calls[c].arguments.kind = "parse"
    /\ calls[c].pc = "called"
    /\ IF FatalError(calls[c].arguments.csvText) # ""
       THEN /\ calls' = [calls EXCEPT ![c].pc = "done", ![c].outcome = "threw"]
            /\ heap' = heap
       ELSE /\ calls' = [calls EXCEPT ![c].pc = "rows", ![c].index = 1,
                                      ![c].array = 1]
            /\ heap' = IF heap = <<>> THEN << <<>> >> ELSE heap
    /\ EngineIdle

\* parseCSV up to its loop: the fatal checks, then the array of the rows.
CallParseBegin(c) ==
    /\ calls[c].arguments.kind = "parse"
    /\ calls[c].pc = "called"
    /\ IF FatalError(calls[c].arguments.csvText) # ""
       THEN /\ calls' = [calls EXCEPT ![c].pc = "done", ![c].outcome = "threw"]
            /\ heap' = heap
       ELSE /\ calls' = [calls EXCEPT ![c].pc = "rows", ![c].index = 1,
                                      ![c].array = NewArray]
            /\ heap' = Append(heap, <<>>)
    /\ EngineIdle

\* One data line: its record is pushed, or the line is skipped.
CallParseRow(c) ==
    /\ calls[c].arguments.kind = "parse"
    /\ calls[c].pc = "rows"
    /\ LET text == calls[c].arguments.csvText
           dataLines == DataLines(text)
       IN  /\ calls[c].index <= Len(dataLines)
           /\ LET row == RowOf(text, dataLines[calls[c].index]) IN
              heap' = IF row.threw THEN heap
                      ELSE [heap EXCEPT ![calls[c].array] = Append(@, row.row)]
    /\ calls' = [calls EXCEPT ![c].index = @ + 1]
    /\ EngineIdle

CallParseReturn(c) ==
    /\ calls[c].arguments.kind = "parse"
    /\ calls[c].pc = "rows"
    /\ calls[c].index > Len(DataLines(calls[c].arguments.csvText))
    /\ calls' = [calls EXCEPT ![c].pc = "done", ![c].outcome = "returned",
                              ![c].result = heap[calls[c].array]]
    /\ heap' = heap
    /\ EngineIdle

\* generateCSV: the array csvRows with the row of the headers.
CallGenerateBegin(c) ==
    /\ calls[c].arguments.kind = "generate"
    /\ calls[c].pc = "called"
    /\ LET names == calls[c].arguments.headers IN
       heap' = Append(heap, <<csvRow([k \in 1..Len(names) |-> Str(names[k])])>>)
    /\ calls' = [calls EXCEPT ![c].pc = "rows", ![c].index = 1,
                              ![c].array = NewArray]
    /\ EngineIdle

CallGenerateRow(c) ==
    /\ calls[c].arguments.kind = "generate"
    /\ calls[c].pc = "rows"
    /\ calls[c].index <= Len(calls[c].arguments.rowValues)
    /\ heap' = [heap EXCEPT ![calls[c].array] =
                    Append(@, csvRow(calls[c].arguments.rowValues[calls[c].index]))]
    /\ calls' = [calls EXCEPT ![c].index = @ + 1]
    /\ EngineIdle

CallGenerateReturn(c) ==
    /\ calls[c].arguments.kind = "generate"
    /\ calls[c].pc = "rows"
    /\ calls[c].index > Len(calls[c].arguments.rowValues)
    /\ calls' = [calls EXCEPT ![c].pc = "done", ![c].outcome = "returned",
                              ![c].result = Join(heap[calls[c].array], <<"\n">>)]
    /\ heap' = heap
    /\ EngineIdle

NextCalls ==
    \E c \in CallIds :
        \/ CallParseBegin(c)
        \/ CallParseRow(c)
        \/ CallParseReturn(c)
        \/ CallGenerateBegin(c)
        \/ CallGenerateRow(c)
        \/ CallGenerateReturn(c)

SpecCalls == InitCalls /\ [][NextCalls]_vars

(***************************************************************************)
(* The ImportTask dialog: its React state, the parse that handleFileSelect *)
(* awaits, the createTasks request that handleImport awaits, and what has  *)
(* been sent to the API.  A handler runs up to its await in one step; what *)
(* follows the await is a step of its own, taken when the promise settles. *)
(***************************************************************************)
MaxImports == 2

Files ==
    { [name |-> <<"o","n","e",".","c","s","v">>, text |-> <<"n","a","m","e",",","t","y","p","e","\n","a",",","t">>],
      [name |-> <<"t","w","o",".","c","s","v">>, text |-> <<"n","a","m","e",",","t","y","p","e","\n","b",",","u","\n","c",",","v">>],
      [name |-> <<"n","o","n","e",".","c","s","v">>, text |-> <<"n","a","m","e",",","t","y","p","e","\n",",","t">>],
      [name |-> <<"b","a","d",".","c","s","v">>, text |-> <<"n","a","m","e","\n","a">>],
      [name |-> <<"n","o","t","e","s",".","t","x","t">>, text |-> <<"n","a","m","e",",","t","y","p","e","\n","a",",","t">>] }

EndsWith(text, suffix) ==
    /\ Len(text) >= Len(suffix)
    /\ SubSeq(text, Len(text) - Len(suffix) + 1, Len(text)) = suffix

isValidCSVFile(file) == EndsWith(file.name, <<".","c","s","v">>)

\* `Failed to read CSV file: ${error.message}`
FailedToRead(message) ==
    IF message = "No lines found in the CSV file"
    THEN "Failed to read CSV file: No lines found in the CSV file"
    ELSE IF message = "No column names found in the CSV header"
    THEN "Failed to read CSV file: No column names found in the CSV header"
    ELSE "Failed to read CSV file: Required keys not found in the CSV header"

\* The promise of parseCSVFile(file): rejected with an Error, or fulfilled
\* with the records.
parseCSVFile(file) ==
    IF ~isValidCSVFile(file)
    THEN [threw |-> TRUE, message |-> "File must be a CSV file"]
    ELSE LET parsed == parseCSV(file.text) IN
         IF parsed.threw
         THEN [threw |-> TRUE, message |-> FailedToRead(parsed.message)]
         ELSE parsed

\* The answers of the task-creation API: [successCount, errorCount].
Counts == {<<0, 1>>, <<1, 0>>, <<1, 1>>, <<2, 0>>}

ImportedToast(successCount, errorCount) ==
    IF successCount = 0 THEN "Failed to import tasks"
    ELSE IF successCount > 1
    THEN (IF errorCount > 0 THEN "Successfully imported tasks (failed)"
          ELSE "Successfully imported tasks")
    ELSE (IF errorCount > 0 THEN "Successfully imported task (failed)"
          ELSE "Successfully imported task")

\* The records as handleImport sends them.
TasksOf(records) ==
    [r \in 1..Len(records) |->
        [name |-> records[r].name, content |-> records[r].content,
         type |-> records[r].type, content_metadata |-> records[r].metadata]]

InitDialog ==
    /\ DialogIdle
    /\ CallsIdle
    /\ AuthIdle
    /\ ParseIdle
    /\ CodecIdle
    /\ ScanIdle
    /\ pc = "dialog"

DialogFrame == UNCHANGED <<parseVars, codecVars, scanVars, callVars, authVars>>

\* handleDialogClose(true)
DialogOpen ==
    /\ ~isOpen
    /\ isOpen' = TRUE
    /\ UNCHANGED <<selectedFile, parsedTasks, isParsing, parsing, importing,
                   sent, invalidations, toast>>
    /\ DialogFrame

\* handleDialogClose(false): the close button, the Escape key, a click
\* outside of the dialog.
DialogClose ==
    /\ isOpen
    /\ isOpen' = FALSE
    /\ selectedFile' = Null
    /\ parsedTasks' = <<>>
    /\ UNCHANGED <<isParsing, parsing, importing, sent, invalidations, toast>>
    /\ DialogFrame

AwaitFrame == UNCHANGED <<codecVars, scanVars, callVars, authVars>>

\* handleFileSelect up to its await; the input is there while the dialog is
\* open and is disabled while isParsing or isImporting.  parseCSVFile
\* rejects a file that is no .csv at once and runs parseCSV on the text of
\* the others, as the steps ParseCSVBegin, ParseCSVRow and ParseCSVReturn.
FileSelect(file) ==
    /\ isOpen
    /\ ~isParsing
    /\ ~importing
    /\ selectedFile' = file
    /\ isParsing' = TRUE
    /\ parsing' = file
    /\ IF isValidCSVFile(file)
       THEN /\ csvText' = file.text
            /\ pc' = "parse"
            /\ outcome' = "running"
            /\ thrown' = ""
       ELSE /\ csvText' = <<>>
            /\ pc' = "done"
            /\ outcome' = "threw"
            /\ thrown' = "File must be a CSV file"
    /\ lineNo' = 0
    /\ rows' = <<>>
    /\ UNCHANGED <<isOpen, parsedTasks, importing, sent, invalidations, toast, exported>>
    /\ AwaitFrame

\* handleFileSelect after its await that keeps the tasks of a document
\* that was rejected.
ParseSettledKeeping ==
    /\ parsing # Null
    /\ pc = "done"
    /\ IF outcome = "threw"
       THEN /\ toast' = (IF isValidCSVFile(parsing) THEN FailedToRead(thrown) ELSE thrown)
            /\ selectedFile' = Null
            /\ UNCHANGED parsedTasks
       ELSE IF Len(rows) = 0
       THEN /\ toast' = "No valid tasks found in the CSV file"
            /\ selectedFile' = Null
            /\ UNCHANGED parsedTasks
       ELSE /\ parsedTasks' = rows
            /\ UNCHANGED <<selectedFile, toast>>
    /\ isParsing' = FALSE
    /\ parsing' = Null
    /\ pc' = "dialog"
    /\ csvText' = <<>>
    /\ lineNo' = 0
    /\ rows' = <<>>
    /\ outcome' = "idle"
    /\ thrown' = ""
    /\ UNCHANGED <<isOpen, importing, sent, invalidations, exported>>
    /\ AwaitFrame

\* handleFileSelect after its await: the promise of parseCSVFile settled,
\* rejected with the Error thrown or fulfilled with the rows.
ParseSettled ==
    /\ parsing # Null
    /\ pc = "done"
    /\ IF outcome = "threw"
       THEN /\ toast' = (IF isValidCSVFile(parsing) THEN FailedToRead(thrown) ELSE thrown)
            /\ selectedFile' = Null
            /\ parsedTasks' = <<>>
       ELSE IF Len(rows) = 0
       THEN /\ toast' = "No valid tasks found in the CSV file"
            /\ selectedFile' = Null
            /\ UNCHANGED parsedTasks
       ELSE /\ parsedTasks' = rows
            /\ UNCHANGED <<selectedFile, toast>>
    /\ isParsing' = FALSE
    /\ parsing' = Null
    /\ pc' = "dialog"
    /\ csvText' = <<>>
    /\ lineNo' = 0
    /\ rows' = <<>>
    /\ outcome' = "idle"
    /\ thrown' = ""
    /\ UNCHANGED <<isOpen, importing, sent, invalidations, exported>>
    /\ AwaitFrame

\* handleImport up to its await; the button is there while the dialog is
\* open, and is disabled while isParsing and while the request is pending.
ImportClick ==
    /\ isOpen
    /\ ~isParsing
    /\ ~importing
    /\ Len(sent) < MaxImports
    /\ IF Len(parsedTasks) = 0
       THEN /\ toast' = "No tasks to import"
            /\ UNCHANGED <<importing, sent>>
       ELSE /\ importing' = TRUE
            /\ sent' = Append(sent, TasksOf(parsedTasks))
            /\ UNCHANGED toast
    /\ UNCHANGED <<isOpen, selectedFile, parsedTasks, isParsing, parsing,
                   invalidations>>
    /\ DialogFrame

\* handleImport after its await that resets the dialog when the request is
\* rejected, too.
ImportRejectedResetting ==
    /\ importing
    /\ importing' = FALSE
    /\ toast' = "An error occurred during import"
    /\ selectedFile' = Null
    /\ parsedTasks' = <<>>
    /\ isOpen' = FALSE
    /\ UNCHANGED <<isParsing, parsing, sent, invalidations>>
    /\ DialogFrame

\* handleImport after its await, the request resolved with the counts.
ImportResolved(successCount, errorCount) ==
    /\ importing
    /\ importing' = FALSE
    /\ toast' = ImportedToast(successCount, errorCount)
    /\ selectedFile' = Null
    /\ parsedTasks' = <<>>
    /\ isOpen' = FALSE
    /\ invalidations' = invalidations + 1
    /\ UNCHANGED <<isParsing, parsing, sent>>
    /\ DialogFrame

\* handleImport after its await, the request rejected.
ImportRejected ==
    /\ importing
    /\ importing' = FALSE
    /\ toast' = "An error occurred during import"
    /\ UNCHANGED <<isOpen, selectedFile, parsedTasks, isParsing, parsing,
                   sent, invalidations>>
    /\ DialogFrame

NextDialog ==
    \/ DialogOpen
    \/ DialogClose
    \/ \E file \in Files : FileSelect(file)
    \/ ParseCSVBegin
    \/ ParseCSVRow
    \/ ParseCSVReturn
    \/ ParseSettled
    \/ ImportClick
    \/ \E counts \in Counts : ImportResolved(counts[1], counts[2])
    \/ ImportRejected

SpecDialog == InitDialog /\ [][NextDialog]_vars

(***************************************************************************)
(* useAuth and the protected layout: the credentials kept in localStorage, *)
(* the login mutation with its onSuccess and onError, logout, and the      *)
(* beforeLoad of the layout route.  localStorage is a function from the    *)
(* keys it holds to their values; getItem(key) !== null reads "key is in   *)
(* its domain".  pendingLogins counts the testAuth calls not yet settled.  *)
(***************************************************************************)
MaxLogins == 2

Usernames == {"admin", "guest", ""}
Passwords == {"secret", "wrong", ""}
ProtectedRoutes == {"/tasks", "/octobots"}

\* localStorage.setItem(key, value)
setItem(storage, key, value) ==
    [k \in DOMAIN storage \cup {key} |-> IF k = key THEN value ELSE storage[k]]

\* localStorage.removeItem(key)
removeItem(storage, key) == [k \in DOMAIN storage \ {key} |-> storage[k]]

isLoggedIn == "auth_username" \in DOMAIN localStorage /\ "auth_password" \in DOMAIN localStorage

\* Where loading a route under the layout ends.
beforeLoad(route) == IF ~isLoggedIn THEN "/login" ELSE route

\* The page is loaded with what an earlier session left in localStorage.
InitAuth ==
    /\ \E stored \in {<<>>} \cup {setItem(setItem(<<>>, "auth_username", "admin"), "auth_password", "secret")} : localStorage = stored
    /\ pendingLogins = 0
    /\ location = "/login"
    /\ lastHandler = "none"
    /\ CallsIdle
    /\ DialogIdle
    /\ ParseIdle
    /\ CodecIdle
    /\ ScanIdle
    /\ pc = "auth"

AuthFrame == UNCHANGED <<parseVars, codecVars, scanVars, callVars, dialogVars>>

\* loginMutation.mutate(data): login stores the credentials, then awaits
\* LoginService.testAuth().
Login(data) ==
    /\ pendingLogins < MaxLogins
    /\ localStorage' = setItem(setItem(localStorage, "auth_username", data.username), "auth_password", data.password)
    /\ pendingLogins' = pendingLogins + 1
    /\ lastHandler' = "login"
    /\ UNCHANGED location
    /\ AuthFrame

\* testAuth resolved: onSuccess
LoginSucceeded ==
    /\ pendingLogins > 0
    /\ pendingLogins' = pendingLogins - 1
    /\ location' = "/"
    /\ lastHandler' = "onSuccess"
    /\ UNCHANGED localStorage
    /\ AuthFrame

\* onError that removes the user name only.
LoginFailedKeepingPassword ==
    /\ pendingLogins > 0
    /\ pendingLogins' = pendingLogins - 1
    /\ localStorage' = removeItem(localStorage, "auth_username")
    /\ lastHandler' = "onError"
    /\ UNCHANGED location
    /\ AuthFrame

\* testAuth rejected: onError
LoginFailed ==
    /\ pendingLogins > 0
    /\ pendingLogins' = pendingLogins - 1
    /\ localStorage' = removeItem(removeItem(localStorage, "auth_username"), "auth_password")
    /\ lastHandler' = "onError"
    /\ UNCHANGED location
    /\ AuthFrame

logout ==
    /\ localStorage' = removeItem(removeItem(localStorage, "auth_username"), "auth_password")
    /\ location' = "/login"
    /\ lastHandler' = "logout"
    /\ UNCHANGED pendingLogins
    /\ AuthFrame

\* A route under the layout is loaded: Route.beforeLoad
LayoutLoad(route) ==
    /\ location' = beforeLoad(route)
    /\ UNCHANGED <<localStorage, pendingLogins, lastHandler>>
    /\ AuthFrame

NextAuth ==
    \/ \E username \in Usernames, password \in Passwords : Login([username |-> username, password |-> password])
    \/ LoginSucceeded
    \/ LoginFailed
    \/ logout
    \/ \E route \in ProtectedRoutes : LayoutLoad(route)

SpecAuth == InitAuth /\ [][NextAuth]_vars
(***************************************************************************)
(* The vocabulary of the properties: the document as its reader sees it.   *)
(* A column is a position of the tokenized header line; a row's cell in a  *)
(* column is the field the tokenizer returns at that position of the row's *)
(* line (empty when the line has no such field).                           *)
(***************************************************************************)
HeaderCells(text) == parseCSVLine(HeaderLine(text))

ColumnOf(text, role) ==
    LET cells == HeaderCells(text)
        hits == {k \in 1..Len(cells) : toLowerCase(cells[k]) = role}
    IN  IF hits = {} THEN 0 ELSE CHOOSE k \in hits : \A h \in hits : k <= h

CellAt(line, k) ==
    LET cells == parseCSVLine(line) IN
    IF k \in 1..Len(cells) THEN cells[k] ELSE <<>>

RoleNames == {COLUMN_NAME, COLUMN_TYPE, COLUMN_METADATA, COLUMN_CONTENT}

\* The positions of the columns that are no role column and have a name.
ExtraColumns(text) ==
    {k \in 1..Len(HeaderCells(text)) :
        /\ HeaderCells(text)[k] # <<>>
        /\ toLowerCase(HeaderCells(text)[k]) \notin RoleNames}

\* No column of the header has an empty name.
AlignedHeader(text) == \A k \in 1..Len(HeaderCells(text)) : HeaderCells(text)[k] # <<>>

CurrentLine == DataLines(csvText)[lineNo]

\* A step of the loop of parseCSV, and one that pushed a record.
RowStep == pc = "rows" /\ lineNo' = lineNo + 1

Appended == Len(rows') = Len(rows) + 1 /\ SubSeq(rows', 1, Len(rows)) = rows

LastRow == rows'[Len(rows')]

\* The value a payload holds for a cell: JSON.parse of it, or the raw text.
ParsedOrRaw(cell) == IF JSONParse(cell).ok THEN JSONParse(cell).v ELSE Str(cell)

KeysOf(kv) == {kv[j].k : j \in 1..Len(kv)}

\* The row is built by buildContent (plaintext mode) as processRow selects it.
PlaintextRow(text, line) ==
    LET columnNames == parseHeader(HeaderLine(text))
        indices == findColumnIndices(columnNames, KEYS_OUTSIDE_CONTENT)
    IN  \/ findContentColumnIndex(columnNames) = 0
        \/ ~\E index \in DOMAIN indices :
                /\ indices[index] = COLUMN_METADATA
                /\ index <= Len(parseCSVLine(line))

\* The cell processRow reads as the content column's.
ContentCellRead(text, line) ==
    LET index == findContentColumnIndex(parseHeader(HeaderLine(text))) IN
    IF index \in 1..Len(parseCSVLine(line)) THEN parseCSVLine(line)[index] ELSE <<>>

(***************************************************************************)
(* C1.  A document whose header has no column matching name or no column   *)
(* matching type (case-insensitively) makes parseCSV throw: it never       *)
(* returns, no data line is processed and no record is built.              *)
(***************************************************************************)
LacksRequiredColumn(text) ==
    ColumnOf(text, COLUMN_NAME) = 0 \/ ColumnOf(text, COLUMN_TYPE) = 0

C1_MissingRequiredColumnIsFatal ==
    LacksRequiredColumn(csvText) =>
        /\ rows = <<>>
        /\ lineNo = 0
        /\ outcome # "returned"
        /\ pc = "done" => outcome = "threw"

C1_Witness ==
    /\ pc = "done"
    /\ outcome = "threw"
    /\ ColumnOf(csvText, COLUMN_NAME) # 0
    /\ ColumnOf(csvText, COLUMN_TYPE) = 0
    /\ Len(Lines(csvText)) = 3
    /\ \A k \in 1..2 : Len(parseCSVLine(DataLines(csvText)[k])) >= 2

(***************************************************************************)
(* C2.  Once the header resolves, parseCSV omits a data line if and only   *)
(* if the line is blank or its cell in the name column or in the type      *)
(* column is missing or empty; every other line yields exactly one record, *)
(* and the lines after a skipped line are still processed.                 *)
(***************************************************************************)
KeptLine(text, line) ==
    /\ Trim(line) # <<>>
    /\ CellAt(line, ColumnOf(text, COLUMN_NAME)) # <<>>
    /\ CellAt(line, ColumnOf(text, COLUMN_TYPE)) # <<>>

SkipsExactlyTheIncompleteLines ==
    (pc \in {"rows", "done", "exported"} /\ outcome # "threw") =>
        /\ Len(rows) = Cardinality({k \in 1..(lineNo - 1) :
                                       KeptLine(csvText, DataLines(csvText)[k])})
        /\ pc # "rows" => lineNo = Len(DataLines(csvText)) + 1

C2_SkipsExactlyTheIncompleteLines == SkipsExactlyTheIncompleteLines

\* The same on the documents whose header has no empty column name.
C2_OnAlignedHeaders == AlignedHeader(csvText) => SkipsExactlyTheIncompleteLines

(***************************************************************************)
(* C3.  Passthrough: in a document whose header has name, type, content    *)
(* and metadata columns, a row whose metadata cell is present gets as      *)
(* content the text of its content cell, unchanged.                        *)
(***************************************************************************)
HasRoleColumns(text) == \A role \in RoleNames : ColumnOf(text, role) # 0

PassthroughKeepsContentCell ==
    (/\ RowStep
     /\ Appended
     /\ HasRoleColumns(csvText)
     /\ CellAt(CurrentLine, ColumnOf(csvText, COLUMN_METADATA)) # <<>>)
    => LastRow.content = CellAt(CurrentLine, ColumnOf(csvText, COLUMN_CONTENT))

C3_PassthroughKeepsContentCell == [][PassthroughKeepsContentCell]_vars

\* The same on the documents whose header has no empty column name.
C3_OnAlignedHeaders == [][AlignedHeader(csvText) => PassthroughKeepsContentCell]_vars

(***************************************************************************)
(* C4.  Plaintext mode, as claimed: when the content cell holds a JSON     *)
(* object, every key of the record's content is uppercased, the keys of    *)
(* that object included.                                                   *)
(***************************************************************************)
HoldsObject(cell) == JSONParse(cell).ok /\ JSONParse(cell).v.t = "obj"

AllKeysUppercased ==
    (/\ RowStep
     /\ Appended
     /\ PlaintextRow(csvText, CurrentLine)
     /\ HoldsObject(CellAt(CurrentLine, ColumnOf(csvText, COLUMN_CONTENT))))
    => /\ HoldsObject(LastRow.content)
       /\ \A key \in KeysOf(JSONParse(LastRow.content).v.kv) : toUpperCase(key) = key

C4_AllKeysUppercased == [][AllKeysUppercased]_vars

(***************************************************************************)
(* C4, amended.  Plaintext mode: the content is a JSON object; each of its *)
(* keys is the uppercased name of a header column, the reserved key        *)
(* CONTENT, or a key of the object held by the cell read as the content    *)
(* column's, and the keys of that object (but __proto__, which is not      *)
(* copied) are in the content exactly as the cell spells them: they are    *)
(* not uppercased.  name,type,content,b with content {"a":1} and b = 2     *)
(* gives {"B":2,"a":1}; content {"s":"B/U"} alone gives {"s":"B/U"}.       *)
(***************************************************************************)
UppercasedNames(text) ==
    LET columnNames == parseHeader(HeaderLine(text)) IN
    {toUpperCase(columnNames[k]) : k \in 1..Len(columnNames)}

ContentKeysAsWritten ==
    (/\ RowStep
     /\ Appended
     /\ PlaintextRow(csvText, CurrentLine))
    => LET cell == ContentCellRead(csvText, CurrentLine)
           written == IF HoldsObject(cell) THEN JSONParse(cell).v.kv ELSE <<>>
       IN  /\ HoldsObject(LastRow.content)
           /\ KeysOf(JSONParse(LastRow.content).v.kv)
                  \subseteq UppercasedNames(csvText) \cup {CONTENT_KEY}
                            \cup KeysOf(written)
           /\ \A j \in 1..Len(written) :
                  written[j].k # <<"_","_","p","r","o","t","o","_","_">>
                  => /\ HasKey(JSONParse(LastRow.content).v.kv, written[j].k)
                     /\ GetKey(JSONParse(LastRow.content).v.kv, written[j].k)
                            = written[j].v
           /\ (HeaderLine(csvText) = <<"n","a","m","e",",","t","y","p","e",",","c","o","n","t","e","n","t",",","b">>
                 /\ CurrentLine = <<"a",",","t",",","\"","{","\"","\"","a","\"","\"",":","1","}","\"",",","2">>)
              => LastRow.content = <<"{","\"","B","\"",":","2",",","\"","a","\"",":","1","}">>
           /\ (HeaderLine(csvText) = <<"n","a","m","e",",","t","y","p","e",",","c","o","n","t","e","n","t",",","b">>
                 /\ CurrentLine = <<"\"","G"," ","B","\"",",","e","x",",","\"","{","\"","\"","s","\"","\"",":","\"","\"","B","/","U","\"","\"","}","\"">>)
              => LastRow.content = <<"{","\"","s","\"",":","\"","B","/","U","\"","}">>

C4_ContentKeysAsWritten == [][ContentKeysAsWritten]_vars

C4_Witness ==
    /\ pc = "done"
    /\ HeaderLine(csvText) = <<"n","a","m","e",",","t","y","p","e",",","c","o","n","t","e","n","t",",","b">>
    /\ Len(rows) = 2
    /\ rows[1].content = <<"{","\"","B","\"",":","2",",","\"","a","\"",":","1","}">>
    /\ rows[2].content = <<"{","\"","s","\"",":","\"","B","/","U","\"","}">>

(***************************************************************************)
(* C5.  Plaintext-mode merge precedence: when the content column holds a   *)
(* plain JSON object and one of its keys is the key an extra column        *)
(* produces (the uppercased name of an extra column whose cell is not      *)
(* empty), the record's content has the content column's value for that    *)
(* key; the keys of the extra columns that do not collide are kept, with   *)
(* the value of their cell.                                                *)
(***************************************************************************)
ProducedKeys(text, line) ==
    {toUpperCase(HeaderCells(text)[k]) :
        k \in {c \in ExtraColumns(text) : CellAt(line, c) # <<>>}}

ContentColumnWins ==
    (/\ RowStep
     /\ Appended
     /\ ColumnOf(csvText, COLUMN_METADATA) = 0
     /\ HoldsObject(CellAt(CurrentLine, ColumnOf(csvText, COLUMN_CONTENT))))
    => LET object == JSONParse(CellAt(CurrentLine,
                                      ColumnOf(csvText, COLUMN_CONTENT))).v.kv
           payload == JSONParse(LastRow.content).v.kv
       IN  /\ HoldsObject(LastRow.content)
           /\ \A key \in KeysOf(object) \cap ProducedKeys(csvText, CurrentLine) :
                  HasKey(payload, key) /\ GetKey(payload, key) = GetKey(object, key)
           /\ \A k \in ExtraColumns(csvText) :
                  (/\ CellAt(CurrentLine, k) # <<>>
                   /\ toUpperCase(HeaderCells(csvText)[k]) \notin KeysOf(object))
                  => /\ HasKey(payload, toUpperCase(HeaderCells(csvText)[k]))
                     /\ GetKey(payload, toUpperCase(HeaderCells(csvText)[k]))
                            = ParsedOrRaw(CellAt(CurrentLine, k))

C5_ContentColumnWins == [][ContentColumnWins]_vars

\* The same on the documents whose header has no empty column name.
C5_OnAlignedHeaders == [][AlignedHeader(csvText) => ContentColumnWins]_vars

\* A collision on an aligned header: content {"B":1} and b = 2 give {"B":1}.
C5_CollisionReached ==
    /\ pc = "done"
    /\ HeaderLine(csvText) = <<"n","a","m","e",",","t","y","p","e",",","c","o","n","t","e","n","t",",","b">>
    /\ Len(rows) = 1
    /\ DataLines(csvText)[1] = <<"b",",","u",",","\"","{","\"","\"","B","\"","\"",":","1","}","\"",",","2">>
    /\ rows[1].content = <<"{","\"","B","\"",":","1","}">>

(***************************************************************************)
(* C6.  Escaping is the inverse of tokenizing, as claimed: for every list  *)
(* of values the tokenizer can represent (no leading or trailing           *)
(* whitespace), each escaped value tokenizes to the one-element list of    *)
(* the value, and the comma-joined escaped values tokenize to the list.    *)
(***************************************************************************)
Representable(v) == Trim(v) = v

TextsOf(vals) == [k \in 1..Len(vals) |-> vals[k].s]

Tokenized ==
    /\ pc = "tokenized"
    /\ \A k \in 1..Len(values) : values[k].t = "str" /\ Representable(values[k].s)

TokensAreTheValues ==
    /\ \A k \in 1..Len(values) : parseCSVLine(escaped[k]) = <<values[k].s>>
    /\ tokens = TextsOf(values)

C6_EscapeInvertsTokenize == Tokenized => TokensAreTheValues

(***************************************************************************)
(* C6, amended.  The same for every non-empty list of representable        *)
(* values: the empty list joins to the empty line, which tokenizes to the  *)
(* list of one empty value.                                                *)
(***************************************************************************)
C6_EscapeInvertsTokenizeNonEmpty ==
    /\ (Tokenized /\ Len(values) >= 1) => TokensAreTheValues
    /\ (Tokenized /\ Len(values) = 0) => tokens = <<<<>>>>

C6_Witness ==
    /\ pc = "tokenized"
    /\ values = <<Str(<<"H","e"," ","s","a","i","d"," ","\"","h","i","\"",","," ","t","w","i","c","e">>), Str(<<"x","\"","y","\"">>)>>
    /\ joined = <<"\"","H","e"," ","s","a","i","d"," ","\"","\"","h","i","\"","\"",","," ","t","w","i","c","e","\"",",","\"","x","\"","\"","y","\"","\"","\"">>
    /\ tokens = TextsOf(values)

(***************************************************************************)
(* C7.  Document round-trip, as claimed: for every document of plain       *)
(* values whose header resolves, generateCSV of the records parseCSV       *)
(* returned is the document again, up to the order of the columns.         *)
(***************************************************************************)
Table(text) ==
    LET lines == Split(text, "\n") IN
    [r \in 1..Len(lines) |-> Split(lines[r], ",")]

\* Y is X with its columns reordered.
SameTable(Y, X) ==
    /\ Len(Y) = Len(X)
    /\ LET n == Len(Y[1]) IN
       /\ \A r \in 1..Len(Y) : Len(Y[r]) = n /\ Len(X[r]) = n
       /\ \E p \in Permutations(1..n) :
              \A r \in 1..Len(Y) : \A k \in 1..n : Y[r][k] = X[r][p[k]]

C7_RoundTrip == pc = "exported" => SameTable(Table(exported), Table(csvText))

(***************************************************************************)
(* C7, amended.  The round trip holds for the documents whose header is    *)
(* exactly the four names name, type, content, metadata in lower case, in  *)
(* any order, and whose lines after it (at least one, none blank) have     *)
(* exactly four cells each, without surrounding whitespace, the name and   *)
(* type cells not empty: the export has the columns name, content, type,   *)
(* metadata.                                                               *)
(***************************************************************************)
FourColumnDocument(text) ==
    LET table == Table(text) IN
    /\ Len(table) >= 2
    /\ Len(table[1]) = 4
    /\ {table[1][k] : k \in 1..4} = RoleNames
    /\ \A r \in 2..Len(table) :
           /\ Len(table[r]) = 4
           /\ \A k \in 1..4 : Trim(table[r][k]) = table[r][k]
           /\ \A k \in 1..4 :
                  table[1][k] \in {COLUMN_NAME, COLUMN_TYPE} => table[r][k] # <<>>

C7_RoundTripFourColumns ==
    FourColumnDocument(csvText) =>
        /\ outcome # "threw"
        /\ pc = "exported" => SameTable(Table(exported), Table(csvText))

C7_Witness ==
    /\ pc = "exported"
    /\ FourColumnDocument(csvText)
    /\ HeaderLine(csvText) = <<"t","y","p","e",",","m","e","t","a","d","a","t","a",",","n","a","m","e",",","c","o","n","t","e","n","t">>
    /\ Len(rows) = 2
    /\ rows[2].content = <<>>
    /\ exported # csvText

(***************************************************************************)
(* C8.  Header role matching is case-insensitive: respelling the header    *)
(* names of the role columns (name, type, metadata, content) in another    *)
(* case (lower, UPPER, Title) leaves the result of parseCSV unchanged, and *)
(* each role resolves to the same column.                                  *)
(***************************************************************************)
Styles == {"lower", "upper", "title"}

Styled(word, style) ==
    IF style = "lower" THEN toLowerCase(word)
    ELSE IF style = "upper" THEN toUpperCase(word)
    ELSE [k \in 1..Len(word) |->
             IF k = 1 THEN toUpperCaseChar(word[k]) ELSE toLowerCaseChar(word[k])]

\* The header line with its role names respelt (a header without quotes).
RespellHeader(headerLine, style) ==
    LET cells == Split(headerLine, ",") IN
    Join([k \in 1..Len(cells) |->
             IF toLowerCase(cells[k]) \in RoleNames
             THEN Styled(cells[k], style)
             ELSE cells[k]], <<",">>)

Respell(text, style) ==
    LET lines == Split(text, "\n") IN
    Join(<<RespellHeader(lines[1], style)>> \o Tail(lines), <<"\n">>)

Role(text, key) == FindIndex(parseHeader(HeaderLine(text)), key)

C8_CaseInsensitiveHeader ==
    pc = "done" =>
        \A style \in Styles :
            LET respelt == Respell(csvText, style)
                result == parseCSV(respelt)
            IN  respelt # csvText =>
                    /\ result.threw = (outcome = "threw")
                    /\ ~result.threw => result.rows = rows
                    /\ \A key \in RoleNames : Role(respelt, key) = Role(csvText, key)

C8_Witness ==
    /\ pc = "done"
    /\ outcome = "returned"
    /\ HeaderLine(csvText) = <<"N","a","m","e",",","T","Y","P","E",",","N","A","M","E">>
    /\ Respell(csvText, "lower") # csvText
    /\ Len(rows) = 2
    /\ parseCSV(Respell(csvText, "lower")).rows = rows

(***************************************************************************)
(* C9.  Once the document has a header line and at least one data line     *)
(* and its header resolves (a name and a type column), parseCSV returns    *)
(* normally whatever the data lines hold: it never throws, and it ends     *)
(* having gone through every data line.                                    *)
(***************************************************************************)
HeaderResolves(text) ==
    /\ Len(Lines(text)) >= 2
    /\ ColumnOf(text, COLUMN_NAME) # 0
    /\ ColumnOf(text, COLUMN_TYPE) # 0

C9_RowsNeverThrow ==
    /\ outcome = "threw" => ~HeaderResolves(csvText)
    /\ (pc = "parse" /\ HeaderResolves(csvText)) => ~parseCSV(csvText).threw
    /\ (pc = "done" /\ HeaderResolves(csvText)) =>
           /\ outcome = "returned"
           /\ lineNo = Len(DataLines(csvText)) + 1

\* A blank line, then a line of more cells than the header whose content
\* cell is no JSON: parseCSV returns the record of the second.
C9_Witness ==
    /\ pc = "done"
    /\ outcome = "returned"
    /\ HeaderLine(csvText) = <<"n","a","m","e",",","t","y","p","e",",","c","o","n","t","e","n","t",",","b">>
    /\ Len(DataLines(csvText)) = 2
    /\ DataLines(csvText)[1] = <<>>
    /\ Len(parseCSVLine(DataLines(csvText)[2])) > Len(HeaderCells(csvText))
    /\ ~JSONParse(CellAt(DataLines(csvText)[2], 3)).ok
    /\ Len(rows) = 1

(***************************************************************************)
(* C10.  The records are in the order of their source lines: the records   *)
(* built so far are those of the processed data lines that yield a record, *)
(* one per line, in the order of the lines; what parseCSV returns is that  *)
(* sequence for all the data lines.                                        *)
(***************************************************************************)
\* The data lines among the first n that yield a record.
Yielding(text, n) ==
    {i \in 1..n : ~RowOf(text, DataLines(text)[i]).threw}

\* The r-th smallest member of a set of line numbers.
Nth(S, r) == CHOOSE i \in S : Cardinality({j \in S : j <= i}) = r

C10_RecordsInLineOrder ==
    pc \in {"rows", "done"} /\ outcome # "threw" =>
        LET yielding == Yielding(csvText, lineNo - 1)
            dataLines == DataLines(csvText)
        IN  /\ Len(rows) = Cardinality(yielding)
            /\ \A r \in 1..Len(rows) :
                   rows[r] = RowOf(csvText, dataLines[Nth(yielding, r)]).row
            /\ pc = "done" => rows = parseCSV(csvText).rows

C10_Witness ==
    /\ pc = "done"
    /\ outcome = "returned"
    /\ Len(rows) = 2
    /\ rows[1] # rows[2]
    /\ rows[1] = RowOf(csvText, DataLines(csvText)[1]).row
    /\ rows[2] = RowOf(csvText, DataLines(csvText)[2]).row

(***************************************************************************)
(* C11.  Every record parseCSV has built or returns has a non-empty name   *)
(* and a non-empty type, whatever the document.                            *)
(***************************************************************************)
C11_RecordsHaveNameAndType ==
    \A r \in 1..Len(rows) : rows[r].name # <<>> /\ rows[r].type # <<>>

\* A line with an empty name cell was left out, the next one gave a record.
C11_Witness ==
    /\ pc = "done"
    /\ outcome = "returned"
    /\ HeaderLine(csvText) = <<"n","a","m","e",",","t","y","p","e",",","c","o","n","t","e","n","t",",","b">>
    /\ DataLines(csvText) = <<<<",","t",",","x">>, <<"x",",","a",",","t",",","z","z">>>>
    /\ Len(rows) = 1
    /\ rows[1].name = <<"x">>

(***************************************************************************)
(* C12.  Mode selection: a row is materialized in passthrough mode (its    *)
(* content is the text of its content cell) exactly when its metadata cell *)
(* holds a value and the header has a content column; a row without a      *)
(* metadata value (no metadata column, or the metadata cell empty or       *)
(* absent) is materialized in plaintext mode: its content is the JSON      *)
(* payload built from the columns.                                         *)
(***************************************************************************)
PayloadOf(text, line) ==
    LET columnNames == parseHeader(HeaderLine(text)) IN
    buildContent(parseCSVLine(line), columnNames,
                 findColumnIndices(columnNames, KEYS_OUTSIDE_CONTENT),
                 findContentColumnIndex(columnNames))

ModeBySelection ==
    (RowStep /\ Appended) =>
        IF /\ CellAt(CurrentLine, ColumnOf(csvText, COLUMN_METADATA)) # <<>>
           /\ ColumnOf(csvText, COLUMN_CONTENT) # 0
        THEN LastRow.content = CellAt(CurrentLine, ColumnOf(csvText, COLUMN_CONTENT))
        ELSE LastRow.content = PayloadOf(csvText, CurrentLine)

C12_ModeBySelection == [][ModeBySelection]_vars

\* The same for the rows whose metadata cell is not an empty cell.
C12_UnlessEmptyMetadataCell ==
    [][(/\ RowStep
        /\ AlignedHeader(csvText)
        /\ \/ ColumnOf(csvText, COLUMN_METADATA) = 0
           \/ ColumnOf(csvText, COLUMN_METADATA) > Len(parseCSVLine(CurrentLine))
           \/ CellAt(CurrentLine, ColumnOf(csvText, COLUMN_METADATA)) # <<>>)
       => ModeBySelection]_vars

(***************************************************************************)
(* C13.  A document without a header line plus one data line (empty text,  *)
(* whitespace only, a header alone) makes parseCSV throw its "No lines     *)
(* found" Error: no data line is processed, no record is built, nothing is *)
(* returned.                                                               *)
(***************************************************************************)
SingleLine(text) == ~Includes(Trim(text), "\n")

C13_NoDataLineIsFatal ==
    SingleLine(csvText) =>
        /\ rows = <<>>
        /\ lineNo = 0
        /\ outcome # "returned"
        /\ pc = "done" =>
               outcome = "threw" /\ thrown = "No lines found in the CSV file"

\* A header alone, followed by a newline and blanks only.
C13_Witness ==
    /\ pc = "done"
    /\ outcome = "threw"
    /\ SingleLine(csvText)
    /\ Trim(csvText) = <<"n","a","m","e",",","t","y","p","e",",","c","o","n","t","e","n","t",",","b">>
    /\ Includes(csvText, "\n")

(***************************************************************************)
(* C14.  A header line without any non-empty column name makes parseCSV    *)
(* throw and return no records, whatever the data lines hold; when there   *)
(* are data lines the Error is "No column names found".                    *)
(***************************************************************************)
NoColumnName(text) == \A k \in 1..Len(HeaderCells(text)) : HeaderCells(text)[k] = <<>>

C14_EmptyHeaderIsFatal ==
    NoColumnName(csvText) =>
        /\ rows = <<>>
        /\ lineNo = 0
        /\ outcome # "returned"
        /\ pc = "done" =>
               /\ outcome = "threw"
               /\ ~SingleLine(csvText)
                  => thrown = "No column names found in the CSV header"

C14_Witness ==
    /\ pc = "done"
    /\ outcome = "threw"
    /\ HeaderLine(csvText) = <<",",",">>
    /\ DataLines(csvText) = <<<<"a",",","t">>, <<"x",",","a",",","t",",","z","z">>>>
    /\ thrown = "No column names found in the CSV header"

(***************************************************************************)
(* C15.  Soft fallback: in a row that is materialized in plaintext mode, a *)
(* cell of an extra column or of the content column that is no valid JSON  *)
(* does not make the row skipped: the row (its name and type cells hold a  *)
(* value) yields a record, and the payload has the raw trimmed text of the *)
(* cell, under the uppercased column name for an extra column (when no     *)
(* other column and no key of the content object gives the same key) and   *)
(* under CONTENT for the content column.                                   *)
(***************************************************************************)
NotJSON(cell) == cell # <<>> /\ ~JSONParse(cell).ok

NoMetadataCell(text, line) ==
    \/ ColumnOf(text, COLUMN_METADATA) = 0
    \/ ColumnOf(text, COLUMN_METADATA) > Len(parseCSVLine(line))

\* The key of the extra column k is the key of no other column's cell.
OwnKey(text, line, k) ==
    \A j \in ExtraColumns(text) \ {k} :
        toUpperCase(HeaderCells(text)[j]) = toUpperCase(HeaderCells(text)[k])
        => CellAt(line, j) = <<>>

RawTextKept ==
    (/\ RowStep
     /\ KeptLine(csvText, CurrentLine)
     /\ NoMetadataCell(csvText, CurrentLine)
     /\ \/ NotJSON(CellAt(CurrentLine, ColumnOf(csvText, COLUMN_CONTENT)))
        \/ \E k \in ExtraColumns(csvText) : NotJSON(CellAt(CurrentLine, k)))
    => /\ Appended
       /\ HoldsObject(LastRow.content)
       /\ LET payload == JSONParse(LastRow.content).v.kv
              cell == CellAt(CurrentLine, ColumnOf(csvText, COLUMN_CONTENT))
          IN  /\ NotJSON(cell) =>
                     /\ HasKey(payload, CONTENT_KEY)
                     /\ GetKey(payload, CONTENT_KEY) = Str(cell)
              /\ \A k \in ExtraColumns(csvText) :
                     (/\ NotJSON(CellAt(CurrentLine, k))
                      /\ OwnKey(csvText, CurrentLine, k))
                     => /\ HasKey(payload, toUpperCase(HeaderCells(csvText)[k]))
                        /\ GetKey(payload, toUpperCase(HeaderCells(csvText)[k]))
                               = Str(CellAt(CurrentLine, k))

C15_OnAlignedHeaders == [][AlignedHeader(csvText) => RawTextKept]_vars

\* name,type,content,b with the cells t and zz: {"B":"zz","CONTENT":"t"}.
C15_FallbackReached ==
    /\ pc = "done"
    /\ HeaderLine(csvText) = <<"n","a","m","e",",","t","y","p","e",",","c","o","n","t","e","n","t",",","b">>
    /\ DataLines(csvText) = <<<<"x",",","a",",","t",",","z","z">>>>
    /\ Len(rows) = 1
    /\ rows[1].content = <<"{","\"","B","\"",":","\"","z","z","\"",",","\"","C","O","N","T","E","N","T","\"",":","\"","t","\"","}">>

(***************************************************************************)
(* C16.  parseCSVLine scans from left to right with the one state          *)
(* inQuotes.  A quote character toggles inQuotes and is not emitted,       *)
(* unless inQuotes holds and the next character is a quote too: then one   *)
(* quote character is emitted, both characters are consumed and inQuotes   *)
(* stays.  A comma met while inQuotes is appended to the current field and *)
(* ends no field.  The fields returned are the ones of parseCSVLine.       *)
(***************************************************************************)
Scanning == pc = "scan" /\ scanIndex <= Len(scanLine) /\ scanIndex' # scanIndex

AtQuote == scanLine[scanIndex] = "\""

AtEscapedQuote ==
    /\ AtQuote
    /\ scanInQuotes
    /\ scanIndex < Len(scanLine)
    /\ scanLine[scanIndex + 1] = "\""

QuoteAsDescribed ==
    (Scanning /\ AtQuote) =>
        /\ scanValues' = scanValues
        /\ IF AtEscapedQuote
           THEN /\ scanCurrent' = scanCurrent \o <<"\"">>
                /\ scanIndex' = scanIndex + 2
                /\ scanInQuotes' = scanInQuotes
           ELSE /\ scanCurrent' = scanCurrent
                /\ scanIndex' = scanIndex + 1
                /\ scanInQuotes' = ~scanInQuotes

QuotedCommaAsDescribed ==
    (Scanning /\ scanLine[scanIndex] = "," /\ scanInQuotes) =>
        /\ scanCurrent' = scanCurrent \o <<",">>
        /\ scanValues' = scanValues
        /\ scanIndex' = scanIndex + 1
        /\ scanInQuotes' = scanInQuotes

LeftToRight ==
    /\ scanLine' = scanLine
    /\ scanIndex' >= scanIndex
    /\ pc' = "scanned" => scanValues' = parseCSVLine(scanLine)

C16_ScanWithOneState ==
    [][QuoteAsDescribed /\ QuotedCommaAsDescribed /\ LeftToRight]_vars

\* The line """, has been scanned up to its end: the quote opened the
\* quoted section, the pair gave one quote character, the comma was kept.
C16_Witness ==
    /\ pc = "scan"
    /\ scanLine = <<"\"", "\"", "\"", ",">>
    /\ scanIndex = 5
    /\ scanInQuotes
    /\ scanCurrent = <<"\"", ",">>
    /\ scanValues = <<>>

(***************************************************************************)
(* C17.  parseCSVLine returns one field more than the line has commas      *)
(* outside quoted sections, in the order of the line, each trimmed: the    *)
(* field of a stretch between two such commas that holds no quote          *)
(* character is the trimmed stretch, so that two commas in a row give an   *)
(* empty field, and the end of the line ends the last field (the empty     *)
(* line gives one empty field).  A position is outside quoted sections     *)
(* when an even number of quote characters stands before it.               *)
(***************************************************************************)
QuotesBefore(line, k) == Cardinality({j \in 1..(k - 1) : line[j] = "\""})

OutsideCommas(line) ==
    {k \in 1..Len(line) : line[k] = "," /\ QuotesBefore(line, k) % 2 = 0}

\* The position of the f-th comma outside quoted sections.
CommaAt(line, f) ==
    CHOOSE k \in OutsideCommas(line) :
        Cardinality({j \in OutsideCommas(line) : j < k}) = f - 1

\* The f-th stretch of the line cut at the commas outside quoted sections.
Stretch(line, f) ==
    LET first == IF f = 1 THEN 1 ELSE CommaAt(line, f - 1) + 1
        last == IF f = Cardinality(OutsideCommas(line)) + 1 THEN Len(line)
                ELSE CommaAt(line, f) - 1
    IN  SubSeq(line, first, last)

C17_OneFieldPerComma ==
    pc = "scanned" =>
        /\ scanValues = parseCSVLine(scanLine)
        /\ Len(scanValues) = Cardinality(OutsideCommas(scanLine)) + 1
        /\ \A f \in 1..Len(scanValues) :
               /\ Trim(scanValues[f]) = scanValues[f]
               /\ ~Includes(Stretch(scanLine, f), "\"")
                      => scanValues[f] = Trim(Stretch(scanLine, f))
        /\ scanLine = <<>> => scanValues = << <<>> >>

\* The line a,, with a space at its end gives three fields, two of them empty.
C17_Witness ==
    /\ pc = "scanned"
    /\ scanLine = <<"a", ",", ",", " ">>
    /\ scanValues = << <<"a">>, <<>>, <<>> >>

(***************************************************************************)
(* C18.  escapeCSVValue, as claimed: null and undefined give the empty     *)
(* text; a text or a number is taken as its text and any other value is    *)
(* JSON-stringified; the text is then wrapped in double quotes with every  *)
(* quote character inside doubled if and only if it holds a comma, a quote *)
(* character or a newline, and is returned unchanged otherwise.            *)
(***************************************************************************)
NeedsQuotes(text) == \E k \in 1..Len(text) : text[k] \in {",", "\"", "\n"}

\* out is text in double quotes with every quote character of text twice.
QuotedAndDoubled(text, out) ==
    /\ Len(out) = Len(text) + QuotesBefore(text, Len(text) + 1) + 2
    /\ out[1] = "\""
    /\ out[Len(out)] = "\""
    /\ \A k \in 1..Len(text) :
           LET at == 1 + k + QuotesBefore(text, k)
           IN  /\ out[at] = text[k]
               /\ text[k] = "\"" => out[at + 1] = "\""

Escapes(text, out) ==
    IF NeedsQuotes(text) THEN QuotedAndDoubled(text, out) ELSE out = text

RendersAsClaimed(value, out) ==
    IF value.t \in {"null", "undefined"} THEN out = <<>>
    ELSE IF value.t \in {"str", "num"} THEN Escapes(StringOf(value), out)
    ELSE JSONSerializable(value) /\ Escapes(JSONStringify(value), out)

C18_StringifiesAllButTextAndNumber ==
    \A k \in 1..Len(escaped) : RendersAsClaimed(values[k], escaped[k])

(***************************************************************************)
(* C18, amended.  The values that are JSON-stringified are the objects and *)
(* the arrays (the values whose typeof is "object"); any other value that  *)
(* is not null or undefined is taken as String(value).  The rest is as     *)
(* claimed.                                                                *)
(***************************************************************************)
Renders(value, out) ==
    IF value.t \in {"null", "undefined"} THEN out = <<>>
    ELSE IF value.t \in {"obj", "arr"} THEN Escapes(JSONStringify(value), out)
    ELSE Escapes(StringOf(value), out)

C18_StringifiesObjects ==
    \A k \in 1..Len(escaped) : Renders(values[k], escaped[k])

\* A BigInt is rendered as its digits, an object as its JSON text in quotes.
C18_Witness ==
    /\ values = <<BigInt(10), Obj(<<[k |-> <<"a">>, v |-> Str(<<"b",",","c">>)]>>)>>
    /\ escaped = <<<<"1","0">>, <<"\"","{","\"","\"","a","\"","\"",":","\"","\"","b",",","c","\"","\"","}","\"">>>>

(***************************************************************************)
(* C19.  generateCSV gives the escaped header row first, then one escaped  *)
(* row per input row in the order given, the fields of a row joined by     *)
(* commas and the rows by newlines, with no newline at the end; the header *)
(* row is there when there is no input row.  Stated of the export of the   *)
(* records parseCSV returned, under the headers name, content, type,       *)
(* metadata; no value of these records holds a newline, so the rows are    *)
(* the pieces of the output between newlines.                              *)
(***************************************************************************)
CommaJoined(fields) ==
    escapeCSVValue(fields[1]) \o <<",">> \o escapeCSVValue(fields[2]) \o <<",">>
    \o escapeCSVValue(fields[3]) \o <<",">> \o escapeCSVValue(fields[4])

C19_HeaderThenRowsInOrder ==
    pc = "exported" =>
        LET lines == Split(exported, "\n") IN
        /\ Len(lines) = Len(rows) + 1
        /\ lines[1] = <<"n","a","m","e",",","c","o","n","t","e","n","t",",","t","y","p","e",",","m","e","t","a","d","a","t","a">>
        /\ \A r \in 1..Len(rows) :
               lines[r + 1] = CommaJoined(RecordValues(rows[r]))
        /\ exported[Len(exported)] # "\n"

\* name,type,content with the lines a,t,c,m and b,u,,n: two records, the
\* content of the first with quotes to double.
C19_Witness ==
    /\ pc = "exported"
    /\ Len(rows) = 2
    /\ rows[1].name = <<"a">>
    /\ rows[2].name = <<"b">>
    /\ exported = <<"n","a","m","e",",","c","o","n","t","e","n","t",",","t","y","p","e",",","m","e","t","a","d","a","t","a">> \o <<"\n">>
                  \o <<"a",",","\"","{","\"","\"","C","O","N","T","E","N","T","\"","\"",":","\"","\"","c","\"","\"","}","\"",",","t",",">> \o <<"\n">>
                  \o <<"b",",","{","}",",","u",",">>

\* No record: the output is the header row alone.
C19_HeaderOnlyReached ==
    /\ pc = "exported"
    /\ rows = <<>>
    /\ exported = <<"n","a","m","e",",","c","o","n","t","e","n","t",",","t","y","p","e",",","m","e","t","a","d","a","t","a">>

(***************************************************************************)
(* C20.  When a role name (name, type, metadata, content) stands more than *)
(* once in the header, each role is bound to its first column, and every   *)
(* record takes its name, its type and its metadata from the cells of      *)
(* these columns, and its content from the cell of the first content       *)
(* column when that cell is passed through (a metadata cell with a value). *)
(***************************************************************************)
RepeatedRole(text) ==
    \E role \in RoleNames :
        Cardinality({k \in 1..Len(HeaderCells(text)) :
                        toLowerCase(HeaderCells(text)[k]) = role}) > 1

FirstColumnWins ==
    (RowStep /\ Appended /\ RepeatedRole(csvText)) =>
        /\ LastRow.name = CellAt(CurrentLine, ColumnOf(csvText, COLUMN_NAME))
        /\ LastRow.type = CellAt(CurrentLine, ColumnOf(csvText, COLUMN_TYPE))
        /\ LastRow.metadata = CellAt(CurrentLine, ColumnOf(csvText, COLUMN_METADATA))
        /\ (/\ LastRow.metadata # <<>>
            /\ ColumnOf(csvText, COLUMN_CONTENT) # 0)
           => LastRow.content = CellAt(CurrentLine, ColumnOf(csvText, COLUMN_CONTENT))

C20_FirstColumnWins == [][FirstColumnWins]_vars

\* The same on the documents whose header has no empty column name.
C20_OnAlignedHeaders == [][AlignedHeader(csvText) => FirstColumnWins]_vars

\* Name,TYPE,NAME with the cells x and t under the two name columns: the
\* record has the name x.
C20_FirstReached ==
    /\ pc = "done"
    /\ HeaderLine(csvText) = <<"N","a","m","e",",","T","Y","P","E",",","N","A","M","E">>
    /\ DataLines(csvText) = <<<<"x",",","a",",","t",",","z","z">>>>
    /\ Len(rows) = 1
    /\ rows[1].name = <<"x">>
    /\ rows[1].type = <<"a">>

\* type,name,content,metadata,TYPE: the type is the cell of the first column
\* and the content cell is passed through.
C20_PassthroughReached ==
    /\ pc = "done"
    /\ HeaderLine(csvText) = <<"t","y","p","e",",","n","a","m","e",",","c","o","n","t","e","n","t",",","m","e","t","a","d","a","t","a",",","T","Y","P","E">>
    /\ DataLines(csvText) = <<<<"x",",","a",",","t",",","\"","{","\"","\"","B","\"","\"",":","1","}","\"",",","2">>>>
    /\ Len(rows) = 1
    /\ rows[1].type = <<"x">>
    /\ rows[1].content = <<"t">>

(***************************************************************************)
(* C21.  In plaintext mode the payload has the key uppercase(column name)  *)
(* for every named column that is neither the column of the name, type or  *)
(* metadata role nor the content column and whose cell holds a value; the  *)
(* key holds the cell parsed as JSON, or its trimmed text when it is no    *)
(* JSON (the last of several columns of one key, and unless the content    *)
(* cell gives that key).  Empty cells add no key, and the cells of the     *)
(* name, type and metadata roles are not folded in: every key comes from   *)
(* such a column or from the content cell.                                 *)
(***************************************************************************)
\* processRow builds the content: the row has no metadata cell, or the
\* header no content column.
PlaintextMode(text, line) ==
    NoMetadataCell(text, line) \/ ColumnOf(text, COLUMN_CONTENT) = 0

\* The named columns outside the four roles that hold a value in the line.
GenericColumns(text, line) ==
    {k \in 1..Len(HeaderCells(text)) :
        /\ HeaderCells(text)[k] # <<>>
        /\ \A role \in RoleNames : k # ColumnOf(text, role)
        /\ CellAt(line, k) # <<>>}

GenericKey(text, k) == toUpperCase(HeaderCells(text)[k])

\* The keys the content cell gives to the payload.
ContentCellKeys(text, line) ==
    LET cell == CellAt(line, ColumnOf(text, COLUMN_CONTENT)) IN
    IF cell = <<>> THEN {}
    ELSE IF HoldsObject(cell) THEN KeysOf(JSONParse(cell).v.kv)
    ELSE {CONTENT_KEY}

GenericColumnsFolded ==
    (/\ RowStep
     /\ Appended
     /\ PlaintextMode(csvText, CurrentLine))
    => /\ HoldsObject(LastRow.content)
       /\ LET payload == JSONParse(LastRow.content).v.kv
              generic == GenericColumns(csvText, CurrentLine)
              fromCell == ContentCellKeys(csvText, CurrentLine)
          IN  /\ \A k \in generic :
                     /\ HasKey(payload, GenericKey(csvText, k))
                     /\ (/\ GenericKey(csvText, k) \notin fromCell
                         /\ \A j \in generic :
                                GenericKey(csvText, j) = GenericKey(csvText, k)
                                => j <= k)
                        => GetKey(payload, GenericKey(csvText, k))
                               = ParsedOrRaw(CellAt(CurrentLine, k))
              /\ \A key \in KeysOf(payload) :
                     \/ key \in fromCell
                     \/ \E k \in generic : key = GenericKey(csvText, k)

C21_GenericColumnsFolded == [][GenericColumnsFolded]_vars

\* The same on the documents whose header has no empty column name.
C21_OnAlignedHeaders == [][AlignedHeader(csvText) => GenericColumnsFolded]_vars

\* name,type,content,b with the cell 2 under b and {"a":1} under content.
C21_FoldedReached ==
    /\ pc = "done"
    /\ HeaderLine(csvText) = <<"n","a","m","e",",","t","y","p","e",",","c","o","n","t","e","n","t",",","b">>
    /\ DataLines(csvText) = <<<<"a",",","t",",","\"","{","\"","\"","a","\"","\"",":","1","}","\"",",","2">>>>
    /\ Len(rows) = 1
    /\ rows[1].content = <<"{","\"","B","\"",":","2",",","\"","a","\"",":","1","}">>

(***************************************************************************)
(* C22.  In plaintext mode a content cell that holds a value which is no   *)
(* JSON object (an array, a number, a string, a boolean, or no JSON at     *)
(* all) is kept under the one key CONTENT, as the parsed value or as the   *)
(* raw text, and the keys of the generic columns are in the payload too.   *)
(***************************************************************************)
ContentUnderReservedKey ==
    (/\ RowStep
     /\ Appended
     /\ PlaintextMode(csvText, CurrentLine)
     /\ CellAt(CurrentLine, ColumnOf(csvText, COLUMN_CONTENT)) # <<>>
     /\ ~HoldsObject(CellAt(CurrentLine, ColumnOf(csvText, COLUMN_CONTENT))))
    => /\ HoldsObject(LastRow.content)
       /\ LET payload == JSONParse(LastRow.content).v.kv
              cell == CellAt(CurrentLine, ColumnOf(csvText, COLUMN_CONTENT))
          IN  /\ HasKey(payload, CONTENT_KEY)
              /\ GetKey(payload, CONTENT_KEY) = ParsedOrRaw(cell)
              /\ \A k \in GenericColumns(csvText, CurrentLine) :
                     HasKey(payload, GenericKey(csvText, k))

C22_ContentUnderReservedKey == [][ContentUnderReservedKey]_vars

\* The same on the documents whose header has no empty column name.
C22_OnAlignedHeaders == [][AlignedHeader(csvText) => ContentUnderReservedKey]_vars

\* name,type,content,b with the cells t under content and zz under b.
C22_ReservedKeyReached ==
    /\ pc = "done"
    /\ HeaderLine(csvText) = <<"n","a","m","e",",","t","y","p","e",",","c","o","n","t","e","n","t",",","b">>
    /\ DataLines(csvText) = <<<<"x",",","a",",","t",",","z","z">>>>
    /\ Len(rows) = 1
    /\ rows[1].content = <<"{","\"","B","\"",":","\"","z","z","\"",",","\"","C","O","N","T","E","N","T","\"",":","\"","t","\"","}">>

\* name,type,content with the number 7 under content: {"CONTENT":7}.
C22_ParsedValueReached ==
    /\ pc = "done"
    /\ HeaderLine(csvText) = <<"n","a","m","e",",","t","y","p","e",",","c","o","n","t","e","n","t">>
    /\ DataLines(csvText) = <<<<"a",",","t",",","7">>>>
    /\ Len(rows) = 1
    /\ rows[1].content = <<"{","\"","C","O","N","T","E","N","T","\"",":","7","}">>

(***************************************************************************)
(* C25.  The positions resolved from the header are positions of the data  *)
(* cells: for every header, one with an empty column name before a named   *)
(* column included, each record has as name, type and metadata the cells   *)
(* at the positions these names have in the tokenized header line, a       *)
(* passed-through content is the cell at the position of content, and in   *)
(* plaintext mode the key of each generic column holds the cell at the     *)
(* position of that column (the last column of a key, and unless the       *)
(* content cell gives the key).                                            *)
(***************************************************************************)
PositionsAsInHeader ==
    (RowStep /\ Appended) =>
        /\ LastRow.name = CellAt(CurrentLine, ColumnOf(csvText, COLUMN_NAME))
        /\ LastRow.type = CellAt(CurrentLine, ColumnOf(csvText, COLUMN_TYPE))
        /\ LastRow.metadata = CellAt(CurrentLine, ColumnOf(csvText, COLUMN_METADATA))
        /\ ~PlaintextMode(csvText, CurrentLine)
               => LastRow.content
                      = CellAt(CurrentLine, ColumnOf(csvText, COLUMN_CONTENT))
        /\ PlaintextMode(csvText, CurrentLine)
               => /\ HoldsObject(LastRow.content)
                  /\ LET payload == JSONParse(LastRow.content).v.kv
                         generic == GenericColumns(csvText, CurrentLine)
                     IN  \A k \in generic :
                             (/\ GenericKey(csvText, k)
                                     \notin ContentCellKeys(csvText, CurrentLine)
                              /\ \A j \in generic :
                                     GenericKey(csvText, j) = GenericKey(csvText, k)
                                     => j <= k)
                             => /\ HasKey(payload, GenericKey(csvText, k))
                                /\ GetKey(payload, GenericKey(csvText, k))
                                       = ParsedOrRaw(CellAt(CurrentLine, k))

C25_PositionsAsInHeader == [][PositionsAsInHeader]_vars

\* The same on the documents whose header has no empty column name.
C25_OnAlignedHeaders == [][AlignedHeader(csvText) => PositionsAsInHeader]_vars

\* ,name,type,content,b: the record of the line x,a,t,zz has the name x,
\* the cell under the column without a name.
C25_ShiftReached ==
    /\ pc = "done"
    /\ HeaderLine(csvText) = <<",","n","a","m","e",",","t","y","p","e",",","c","o","n","t","e","n","t",",","b">>
    /\ DataLines(csvText) = <<<<"x",",","a",",","t",",","z","z">>>>
    /\ Len(rows) = 1
    /\ rows[1].name = <<"x">>
    /\ rows[1].type = <<"a">>

(***************************************************************************)
(* C26.  For headers that hold name and type and rows (at least one) whose *)
(* name and type are texts that are not empty (read: not blank, a blank    *)
(* name or type being an empty one once trimmed), parseCSV of generateCSV  *)
(* of them returns one record per row, in the order of the rows, the name  *)
(* and the type of each record being the trimmed values of its row, also   *)
(* when a value holds a comma, a quote character or a newline.             *)
(***************************************************************************)
PositionOf(names, key) == CHOOSE k \in 1..Len(names) : names[k] = key

RecordPerRow ==
    /\ outcome = "returned"
    /\ Len(rows) = Len(exportRows)
    /\ \A r \in 1..Len(rows) :
           /\ rows[r].name = Trim(exportRows[r][PositionOf(exportHeaders, COLUMN_NAME)].s)
           /\ rows[r].type = Trim(exportRows[r][PositionOf(exportHeaders, COLUMN_TYPE)].s)

NotBlank(names, rowsGiven) ==
    \A r \in 1..Len(rowsGiven) :
        /\ Trim(rowsGiven[r][PositionOf(names, COLUMN_NAME)].s) # <<>>
        /\ Trim(rowsGiven[r][PositionOf(names, COLUMN_TYPE)].s) # <<>>

Reimported == pc = "done" /\ exportHeaders # <<>>

C26_RecordPerRow ==
    (Reimported /\ NotBlank(exportHeaders, exportRows)) => RecordPerRow

\* The same for the headers without an empty name and the rows that have no
\* newline in a value.
NoNewline(value) == value.t = "str" => ~Includes(value.s, "\n")

Reimportable ==
    /\ \A k \in 1..Len(exportHeaders) : Trim(exportHeaders[k]) # <<>>
    /\ \A r \in 1..Len(exportRows) :
           \A k \in 1..Len(exportHeaders) : NoNewline(exportRows[r][k])
    /\ NotBlank(exportHeaders, exportRows)

C26_WithoutNewlines == (Reimported /\ Reimportable) => RecordPerRow

\* The name p, newline, q is exported in quotes and read back as two lines,
\* none of which has a type: parseCSV returns no record.
C26_BrokenLineReached ==
    /\ pc = "done"
    /\ exportHeaders = <<COLUMN_NAME, COLUMN_TYPE>>
    /\ exportRows = << <<Str(<<"p","\n","q">>), Str(<<"t">>)>> >>
    /\ csvText = <<"n","a","m","e",",","t","y","p","e","\n","\"","p","\n","q","\"",",","t">>
    /\ outcome = "returned"
    /\ rows = <<>>

\* A name with a quote and a comma comes back, trimmed.
C26_QuotedReached ==
    /\ pc = "done"
    /\ exportHeaders = <<COLUMN_CONTENT, COLUMN_NAME, COLUMN_TYPE>>
    /\ exportRows = << <<Null, Str(<<" ","x","\"",",","y">>), Str(<<"t">>)>> >>
    /\ Len(rows) = 1
    /\ rows[1].name = <<"x","\"",",","y">>

(***************************************************************************)
(* C23.  The engine keeps no state between calls.  Under any interleaving  *)
(* of calls of parseCSV and generateCSV, each call ends as it does alone:  *)
(* parseCSV throws or returns the records that the call alone gives for    *)
(* its text, generateCSV returns the text it gives alone for its headers   *)
(* and rows.  Calls on the same arguments give equal results, and every    *)
(* call that builds an array builds a new one: no two calls hold the same  *)
(* array.                                                                  *)
(***************************************************************************)
ResultAlone(arguments) ==
    IF arguments.kind = "parse"
    THEN LET parsed == parseCSV(arguments.csvText) IN
         IF parsed.threw THEN [outcome |-> "threw", result |-> <<>>]
         ELSE [outcome |-> "returned", result |-> parsed.rows]
    ELSE [outcome |-> "returned",
          result |-> generateCSV(arguments.headers, arguments.rowValues)]

Ended(c) == c \in DOMAIN calls /\ calls[c].pc = "done"

C23_NoStateBetweenCalls ==
    /\ \A c \in DOMAIN calls :
           Ended(c) =>
               /\ calls[c].outcome = ResultAlone(calls[c].arguments).outcome
               /\ calls[c].result = ResultAlone(calls[c].arguments).result
    /\ \A c, d \in DOMAIN calls :
           /\ (Ended(c) /\ Ended(d) /\ calls[c].arguments = calls[d].arguments)
                  => calls[c].result = calls[d].result
           /\ (c # d /\ calls[c].array # 0) => calls[c].array # calls[d].array

\* Two calls of parseCSV on the same text have ended, the second one begun
\* first: equal records, built in two arrays.
C23_Witness ==
    /\ Ended(1)
    /\ Ended(2)
    /\ calls[1].arguments.kind = "parse"
    /\ calls[1].arguments = calls[2].arguments
    /\ calls[1].array > calls[2].array
    /\ calls[2].array > 0
    /\ Len(calls[1].result) = 2
    /\ calls[1].result = calls[2].result

(***************************************************************************)
(* C24.  In the ImportTask dialog, when the parse of the selected file     *)
(* ends in a fatal error (parseCSVFile throws), selectedFile is null and   *)
(* parsedTasks is empty afterwards, and handleImport sends nothing while   *)
(* parsedTasks is empty: a rejected document imports nothing.              *)
(***************************************************************************)
ParseSettles == parsing # Null /\ parsing' = Null

RejectedImportsNothing ==
    /\ (ParseSettles /\ parseCSVFile(parsing).threw)
           => selectedFile' = Null /\ parsedTasks' = <<>>
    /\ parsedTasks = <<>> => sent' = sent /\ (importing' => importing)

C24_RejectedImportsNothing == [][RejectedImportsNothing]_vars

\* After the tasks of one.csv were imported, the dialog was opened again and
\* bad.csv rejected: the dialog holds no file and no task.
C24_Witness ==
    /\ isOpen
    /\ ~isParsing
    /\ toast = "Failed to read CSV file: Required keys not found in the CSV header"
    /\ selectedFile = Null
    /\ parsedTasks = <<>>
    /\ Len(sent) = 1

(***************************************************************************)
(* C27.  The state of ImportTask is reset when the dialog closes: in every *)
(* state in which the dialog is closed selectedFile is null and            *)
(* parsedTasks is empty, also when the dialog is closed while the parse    *)
(* started by handleFileSelect is pending and the parse ends afterwards.   *)
(***************************************************************************)
C27_ClosedMeansReset == ~isOpen => selectedFile = Null /\ parsedTasks = <<>>

\* What holds: the step that closes the dialog leaves no file and no task.
C27_ClosingResets ==
    [][(isOpen /\ ~isOpen') => selectedFile' = Null /\ parsedTasks' = <<>>]_vars

\* The dialog was closed while one.csv was parsed: it is closed and holds
\* the task of that file.
C27_StaleTasksReached ==
    /\ ~isOpen
    /\ ~isParsing
    /\ selectedFile = Null
    /\ Len(parsedTasks) = 1
    /\ sent = <<>>

(***************************************************************************)
(* C28.  Whenever parsedTasks is not empty (and no parse is pending),      *)
(* selectedFile is not null and parsedTasks is the result of parsing that  *)
(* file: the tasks handleImport would send are those of the file selected  *)
(* last, and a file that yields no valid task, selected after a file that  *)
(* was parsed, leaves no task of the earlier file.                         *)
(***************************************************************************)
C28_TasksOfSelectedFile ==
    (parsedTasks # <<>> /\ ~isParsing) =>
        /\ selectedFile # Null
        /\ ~parseCSVFile(selectedFile).threw
        /\ parsedTasks = parseCSVFile(selectedFile).rows

\* What holds: a parse that ends with tasks makes them the parsed tasks, and
\* they are those of the selected file unless the dialog was closed since.
C28_SettledWithTasks ==
    [][(/\ ParseSettles
        /\ ~parseCSVFile(parsing).threw
        /\ parseCSVFile(parsing).rows # <<>>)
       => /\ parsedTasks' = parseCSVFile(parsing).rows
          /\ selectedFile' \in {parsing, Null}]_vars

\* none.csv was selected after one.csv, with the dialog open all along: no
\* file is selected and the task of one.csv can be imported.
C28_EarlierTasksReached ==
    /\ isOpen
    /\ ~isParsing
    /\ toast = "No valid tasks found in the CSV file"
    /\ selectedFile = Null
    /\ Len(parsedTasks) = 1

(***************************************************************************)
(* C29.  When the createTasks request of handleImport is rejected,         *)
(* selectedFile, parsedTasks and the open state of the dialog stay as they *)
(* are and the tasks query is not invalidated.  When it resolves, whatever *)
(* the counts it reports, they are reset, the dialog is closed and the     *)
(* query is invalidated; the query is invalidated at no other step.        *)
(***************************************************************************)
RequestSettles == importing /\ ~importing'

Rejected == RequestSettles /\ toast' = "An error occurred during import"

ResetOnlyWhenResolved ==
    /\ Rejected => UNCHANGED <<selectedFile, parsedTasks, isOpen, invalidations>>
    /\ (RequestSettles /\ ~Rejected)
           => /\ selectedFile' = Null
              /\ parsedTasks' = <<>>
              /\ isOpen' = FALSE
              /\ invalidations' = invalidations + 1
    /\ invalidations' # invalidations => (RequestSettles /\ ~Rejected)

C29_ResetOnlyWhenResolved == [][ResetOnlyWhenResolved]_vars

\* A request was rejected with the dialog open: the file and its two tasks
\* are still there, nothing was invalidated.
C29_Witness ==
    /\ toast = "An error occurred during import"
    /\ ~importing
    /\ isOpen
    /\ selectedFile # Null
    /\ Len(parsedTasks) = 2
    /\ Len(sent) = 1
    /\ invalidations = 0


\* Neither of the two items is in localStorage, isLoggedIn() is false and
\* every route under the layout ends at /login.
Cleared ==
    /\ "auth_username" \notin DOMAIN localStorage
    /\ "auth_password" \notin DOMAIN localStorage
    /\ ~isLoggedIn
    /\ \A route \in ProtectedRoutes : beforeLoad(route) = "/login"

\* C30: in every sequence of login attempts and logouts, as long as the
\* last of these handlers to run was the onError of a failed login or
\* logout, neither auth_username nor auth_password is in localStorage,
\* isLoggedIn() is false and the protected layout redirects to /login.
C30_ClearedAfterFailureAndLogout == lastHandler \in {"onError", "logout"} => Cleared

\* C30, as steps: the step of onError and the step of logout end with the
\* credentials cleared, and a load of the layout that follows ends at /login.
C30_LoadsRedirect == [][(lastHandler \in {"onError", "logout"} /\ lastHandler' = lastHandler /\ location' # location) => location' = "/login"]_vars

\* Two attempts were in flight and the first to settle failed: the
\* credentials stored by both are gone while the other attempt is pending,
\* after an attempt that succeeded had led to the page "/".
C30_Witness ==
    /\ lastHandler = "onError"
    /\ pendingLogins = 1
    /\ localStorage = <<>>
    /\ location = "/"

\* The credentials of the session before were removed by logout.
C30_LogoutReached == lastHandler = "logout" /\ localStorage = <<>> /\ pendingLogins = 0 /\ location = "/login"
====
